---- MODULE Spec2Model ----
(***************************************************************************)
(* A model of the website -> YOOtheme converter of this repository:        *)
(*   src/src/utils/joomlaConverter.ts   the converter (class               *)
(*                                      JoomlaConverter, static methods)   *)
(*   src/unnamed/part_000               the single-page UI (handleConvert) *)
(*   src/src/components/JoomlaConverter.tsx  the tabbed UI                 *)
(*                                      (handleConversion)                 *)
(*                                                                         *)
(* Strings that come from the page (class names, text, URLs, attribute     *)
(* values) are sequences of one-character strings, so that includes(),     *)
(* trim(), split('/') and length are computed as JavaScript computes them. *)
(* Strings that are literals of the code ("section", "primary") are TLA+   *)
(* strings.                                                                *)
(*                                                                         *)
(* A document is the tree DOMParser returns: doc.nodes is the sequence of  *)
(* the elements below <body> in document order (preorder); every node      *)
(* names its parent (0 is <body>), its tag, its attributes and the text    *)
(* that is its own (the text node that precedes its element children).     *)
(***************************************************************************)
EXTENDS Integers, Sequences, FiniteSets, TLC

(***************************************************************************)
(* Bounds of the model                                                     *)
(***************************************************************************)
\* the generated documents have at most MaxNodes elements below <body>
MaxNodes == 3
\* the class strings given to determineButtonStyle are made of at most
\* MaxTokens tokens
MaxTokens == 2
\* conversion attempts a user makes in one session of a UI component
MaxAttempts == 2

(***************************************************************************)
(* Strings                                                                 *)
(***************************************************************************)
\* n copies of the character c
Rep(c, n) == [i \in 1..n |-> c]

Min(a, b) == IF a < b THEN a ELSE b
Max(a, b) == IF a > b THEN a ELSE b

\* String.prototype.includes: t occurs in s as a contiguous substring
Includes(s, t) ==
    \E i \in 0..(Len(s) - Len(t)) : SubSeq(s, i + 1, i + Len(t)) = t

\* s starts with t at position i (1-based)
StartsAt(s, t, i) ==
    /\ i + Len(t) - 1 <= Len(s)
    /\ SubSeq(s, i, i + Len(t) - 1) = t

\* the characters JavaScript's \s and trim() treat as white space
WhiteSpace == {" ", "\n", "\t"}

\* String.prototype.trim
Trim(s) ==
    LET keep == {i \in 1..Len(s) : s[i] \notin WhiteSpace}
    IN  IF keep = {} THEN <<>>
        ELSE LET lo == CHOOSE i \in keep : \A j \in keep : i <= j
                 hi == CHOOSE i \in keep : \A j \in keep : j <= i
             IN  SubSeq(s, lo, hi)

\* String.prototype.toLowerCase, on the alphabet of the model
LowerChar(c) ==
    CASE c = "P" -> "p" [] c = "R" -> "r" [] c = "I" -> "i" [] c = "M" -> "m"
      [] c = "A" -> "a" [] c = "Y" -> "y" [] c = "B" -> "b" [] c = "T" -> "t"
      [] c = "N" -> "n" [] OTHER -> c
ToLowerCase(s) == [i \in 1..Len(s) |-> LowerChar(s[i])]

\* the class attribute value s holds the class token c (the selector .c)
HasClass(s, c) ==
    \E i \in 1..Len(s) :
        /\ StartsAt(s, c, i)
        /\ (i = 1 \/ s[i - 1] \in WhiteSpace)
        /\ (i + Len(c) > Len(s) \/ s[i + Len(c)] \in WhiteSpace)

\* the ascending sequence of a finite set of integers (document order)
RECURSIVE Sorted(_)
Sorted(S) ==
    IF S = {} THEN <<>>
    ELSE LET m == CHOOSE x \in S : \A y \in S : x <= y
         IN  <<m>> \o Sorted(S \ {m})

\* the concatenation of a sequence of strings
RECURSIVE Concat(_)
Concat(ss) == IF ss = <<>> THEN <<>> ELSE Head(ss) \o Concat(Tail(ss))

\* the elements of a sequence, as a set
Range(s) == {s[i] : i \in 1..Len(s)}

(***************************************************************************)
(* The words the code looks for, as strings of the page's alphabet         *)
(***************************************************************************)
s_section == <<"s", "e", "c", "t", "i", "o", "n">>
s_content == <<"c", "o", "n", "t", "e", "n", "t">>
s_container == <<"c", "o", "n", "t", "a", "i", "n", "e", "r">>
s_wrapper == <<"w", "r", "a", "p", "p", "e", "r">>
s_row == <<"r", "o", "w">>
s_hero == <<"h", "e", "r", "o">>
s_banner == <<"b", "a", "n", "n", "e", "r">>
s_feature == <<"f", "e", "a", "t", "u", "r", "e">>
s_testimonial == <<"t", "e", "s", "t", "i", "m", "o", "n", "i", "a", "l">>
s_gallery == <<"g", "a", "l", "l", "e", "r", "y">>
s_portfolio == <<"p", "o", "r", "t", "f", "o", "l", "i", "o">>
s_about == <<"a", "b", "o", "u", "t">>
s_service == <<"s", "e", "r", "v", "i", "c", "e">>
s_product == <<"p", "r", "o", "d", "u", "c", "t">>
s_sidebar == <<"s", "i", "d", "e", "b", "a", "r">>
s_widget == <<"w", "i", "d", "g", "e", "t">>
s_block == <<"b", "l", "o", "c", "k">>
s_card == <<"c", "a", "r", "d">>
s_menu == <<"m", "e", "n", "u">>
s_list == <<"l", "i", "s", "t">>
s_accordion == <<"a", "c", "c", "o", "r", "d", "i", "o", "n">>
s_tabs == <<"t", "a", "b", "s">>
s_carousel == <<"c", "a", "r", "o", "u", "s", "e", "l">>
s_header == <<"h", "e", "a", "d", "e", "r">>
s_navbar == <<"n", "a", "v", "b", "a", "r">>
s_nav_menu == <<"n", "a", "v", "-", "m", "e", "n", "u">>
s_footer == <<"f", "o", "o", "t", "e", "r">>
s_btn == <<"b", "t", "n">>
s_button == <<"b", "u", "t", "t", "o", "n">>
s_article == <<"a", "r", "t", "i", "c", "l", "e">>
s_main == <<"m", "a", "i", "n">>
s_jumbotron == <<"j", "u", "m", "b", "o", "t", "r", "o", "n">>
s_bg_ == <<"b", "g", "-">>
s_background_ == <<"b", "a", "c", "k", "g", "r", "o", "u", "n", "d", "-">>
s_section_ == <<"s", "e", "c", "t", "i", "o", "n", "-">>
s_dark == <<"d", "a", "r", "k">>
s_light == <<"l", "i", "g", "h", "t">>
s_primary == <<"p", "r", "i", "m", "a", "r", "y">>
s_grid == <<"g", "r", "i", "d">>
s_col_ == <<"c", "o", "l", "-">>
s_flex == <<"f", "l", "e", "x">>
s_panel == <<"p", "a", "n", "e", "l">>
s_secondary == <<"s", "e", "c", "o", "n", "d", "a", "r", "y">>
s_outline == <<"o", "u", "t", "l", "i", "n", "e">>
s_ghost == <<"g", "h", "o", "s", "t">>
s_submit == <<"s", "u", "b", "m", "i", "t">>
s_stylesheet == <<"s", "t", "y", "l", "e", "s", "h", "e", "e", "t">>
s_background_image == <<"b", "a", "c", "k", "g", "r", "o", "u", "n", "d", "-", "i", "m", "a", "g", "e">>
s_grid_cols_ == <<"g", "r", "i", "d", "-", "c", "o", "l", "s", "-">>
s_contentinfo == <<"c", "o", "n", "t", "e", "n", "t", "i", "n", "f", "o">>
s_post == <<"p", "o", "s", "t">>
s_auto == <<"a", "u", "t", "o">>
s_image_jpg == <<"i", "m", "a", "g", "e", ".", "j", "p", "g">>
s__media_converted_ == <<"/", "m", "e", "d", "i", "a", "/", "c", "o", "n", "v", "e", "r", "t", "e", "d", "/">>
s_input == <<"i", "n", "p", "u", "t">>
s_textarea == <<"t", "e", "x", "t", "a", "r", "e", "a">>
s_select == <<"s", "e", "l", "e", "c", "t">>
s_hash == <<"#">>
s_url_open == <<"u", "r", "l", "(">>
s_colon == <<":">>
s_slash == <<"/">>
s_space == <<" ">>

(***************************************************************************)
(* The document tree (what DOMParser.parseFromString returns)              *)
(***************************************************************************)
NoAttrs == [a \in {} |-> <<>>]
Node(tag, parent, attrs, text) ==
    [tag |-> tag, parent |-> parent, attrs |-> attrs, text |-> text]

\* the elements below <body>, in document order; 0 stands for <body>
Els(d) == 1..Len(d.nodes)

RECURSIVE Ancestors(_, _)
Ancestors(d, i) ==
    IF i = 0 THEN {}
    ELSE LET p == d.nodes[i].parent
         IN  IF p = 0 THEN {} ELSE {p} \cup Ancestors(d, p)

\* Node.contains: a is b or an ancestor of b
Contains(d, a, b) == a = b \/ a \in Ancestors(d, b)

Descendants(d, i) ==
    IF i = 0 THEN Els(d) ELSE {j \in Els(d) : i \in Ancestors(d, j)}

\* Element.children, in document order
Children(d, i) == Sorted({j \in Els(d) : d.nodes[j].parent = i})

TagName(d, i) == d.nodes[i].tag
HasAttribute(d, i, n) == n \in DOMAIN d.nodes[i].attrs
\* getAttribute(n) || dflt : an absent attribute (null) and the empty string
\* are both falsy
AttrOr(d, i, n, dflt) ==
    IF HasAttribute(d, i, n) /\ d.nodes[i].attrs[n] /= <<>>
    THEN d.nodes[i].attrs[n] ELSE dflt
\* Element.className / classList.toString(): the class attribute, "" if absent
ClassName(d, i) == AttrOr(d, i, "class", <<>>)

\* Node.textContent: the text of the element and of its descendants, in
\* document order
TextContent(d, i) ==
    LET S == Sorted({i} \cup Descendants(d, i))
    IN  Concat([k \in 1..Len(S) |-> d.nodes[S[k]].text])

\* textContent?.trim() || ''
TrimmedText(d, i) == Trim(TextContent(d, i))

(***************************************************************************)
(* Selectors                                                               *)
(***************************************************************************)
SelTag(t) == [k |-> "tag", tag |-> t]
SelClass(c) == [k |-> "class", c |-> c]
SelTagClass(t, c) == [k |-> "tagClass", tag |-> t, c |-> c]
SelTagAttrSub(t, a, s) == [k |-> "tagAttrSub", tag |-> t, a |-> a, s |-> s]
SelAttrSub(a, s) == [k |-> "attrSub", a |-> a, s |-> s]
SelAttrEq(a, v) == [k |-> "attrEq", a |-> a, v |-> v]
SelTagAttrEq(t, a, v) == [k |-> "tagAttrEq", tag |-> t, a |-> a, v |-> v]

\* Element.matches for one simple selector
Matches(d, i, sel) ==
    CASE sel.k = "tag" -> TagName(d, i) = sel.tag
      [] sel.k = "class" -> HasClass(ClassName(d, i), sel.c)
      [] sel.k = "tagClass" ->
            TagName(d, i) = sel.tag /\ HasClass(ClassName(d, i), sel.c)
      [] sel.k = "tagAttrSub" ->
            /\ TagName(d, i) = sel.tag
            /\ HasAttribute(d, i, sel.a)
            /\ Includes(d.nodes[i].attrs[sel.a], sel.s)
      [] sel.k = "attrSub" ->
            /\ HasAttribute(d, i, sel.a)
            /\ Includes(d.nodes[i].attrs[sel.a], sel.s)
      [] sel.k = "attrEq" ->
            HasAttribute(d, i, sel.a) /\ d.nodes[i].attrs[sel.a] = sel.v
      [] sel.k = "tagAttrEq" ->
            /\ TagName(d, i) = sel.tag
            /\ HasAttribute(d, i, sel.a)
            /\ d.nodes[i].attrs[sel.a] = sel.v

\* Element.matches for a selector list
MatchesAny(d, i, sels) == \E k \in 1..Len(sels) : Matches(d, i, sels[k])

\* root.querySelectorAll(list): the descendants of root that match one of the
\* selectors, in document order
QuerySelectorAll(d, root, sels) ==
    Sorted({j \in Descendants(d, root) : MatchesAny(d, j, sels)})

\* Element.closest(list): an inclusive ancestor matches
Closest(d, i, sels) ==
    \E j \in {i} \cup Ancestors(d, i) : MatchesAny(d, j, sels)

(***************************************************************************)
(* Content Discoverer (joomlaConverter.ts, lines 93-197)                   *)
(***************************************************************************)
headerSelectors ==
    << SelTag("header"), SelTag("nav"), SelClass(s_header), SelClass(s_navbar),
       SelClass(s_nav_menu), SelAttrEq("role", s_banner) >>

footerSelectors ==
    << SelTag("footer"), SelClass(s_footer), SelAttrEq("role", s_contentinfo) >>

\* the selector strings of discoverContentElements, in the order of the code
contentSelectors ==
    << SelTag("main"), SelTag("section"), SelTag("article"),
       SelTagAttrSub("div", "class", s_section),
       SelTagAttrSub("div", "class", s_content),
       SelTagAttrSub("div", "class", s_container),
       SelTagAttrSub("div", "class", s_wrapper),
       SelTagAttrSub("div", "class", s_row),
       SelTagAttrSub("div", "id", s_section),
       SelTagAttrSub("div", "id", s_content),
       SelClass(s_hero), SelClass(s_banner), SelClass(s_feature),
       SelClass(s_testimonial), SelClass(s_gallery), SelClass(s_portfolio),
       SelClass(s_about), SelClass(s_service), SelClass(s_product),
       SelTag("aside"), SelClass(s_sidebar), SelClass(s_widget),
       SelClass(s_block), SelTag("form"), SelTag("table"), SelClass(s_card),
       SelTagClass("ul", s_menu), SelTagClass("ul", s_list), SelTag("dl"),
       SelClass(s_accordion), SelClass(s_tabs), SelClass(s_carousel) >>

imgSelectors == << SelTag("img") >>
mediaSelectors == << SelTag("video"), SelTag("audio"), SelTag("iframe") >>
formControlSelectors ==
    << SelTag("form"), SelTag("input"), SelTag("textarea"), SelTag("select") >>

\* the length over which an element's text makes it significant
SignificantTextLength == 20

hasSignificantContent(d, el) ==
    LET text == TrimmedText(d, el)
        hasImages == Len(QuerySelectorAll(d, el, imgSelectors)) > 0
        hasMedia == Len(QuerySelectorAll(d, el, mediaSelectors)) > 0
        hasForm == Len(QuerySelectorAll(d, el, formControlSelectors)) > 0
    IN  Len(text) > SignificantTextLength \/ hasImages \/ hasMedia \/ hasForm

\* a containment test that looks one way only
isNestedElement_oneWay(d, element, existingElements) ==
    \E k \in 1..Len(existingElements) : Contains(d, existingElements[k], element)


isNestedElement(d, element, existingElements) ==
    \E k \in 1..Len(existingElements) :
        \/ Contains(d, existingElements[k], element)
        \/ Contains(d, element, existingElements[k])

\* found.forEach(el => ...) of discoverContentElements
RECURSIVE DiscoverFound(_, _, _)
DiscoverFound(d, found, elements) ==
    IF found = <<>> THEN elements
    ELSE LET el == Head(found)
         IN  DiscoverFound(d, Tail(found),
                 IF ~isNestedElement(d, el, elements) /\ hasSignificantContent(d, el)
                 THEN Append(elements, el) ELSE elements)

\* contentSelectors.forEach(selector => ...), from the k-th selector on
RECURSIVE DiscoverSelectors(_, _, _)
DiscoverSelectors(d, k, elements) ==
    IF k > Len(contentSelectors) THEN elements
    ELSE DiscoverSelectors(d, k + 1,
             DiscoverFound(d, QuerySelectorAll(d, 0, <<contentSelectors[k]>>), elements))

discoverContentElements(d) == DiscoverSelectors(d, 1, <<>>)

breakTags == {"section", "article", "main"}
breakWords == {s_section, s_article, s_main, s_hero, s_banner}

\* previousElement is 0 when there is none (elements[-1] is undefined)
isVisualSectionBreak(d, element, previousElement) ==
    IF previousElement = 0 THEN TRUE
    ELSE \/ TagName(d, element) \in breakTags
         \/ HasClass(ClassName(d, element), s_hero)
         \/ HasClass(ClassName(d, element), s_banner)
         \/ \E w \in breakWords : Includes(ClassName(d, element), w)

\* elements.forEach((element, index) => ...) of groupContentByVisualSections,
\* from index k on (1-based); st = [groups, currentGroup]
RECURSIVE GroupLoop(_, _, _, _)
GroupLoop(d, elements, k, st) ==
    IF k > Len(elements) THEN st
    ELSE LET element == elements[k]
             isVisualBreak ==
                 isVisualSectionBreak(d, element, IF k = 1 THEN 0 ELSE elements[k - 1])
         IN  GroupLoop(d, elements, k + 1,
                 IF isVisualBreak /\ Len(st.currentGroup) > 0
                 THEN [groups |-> Append(st.groups, st.currentGroup),
                       currentGroup |-> <<element>>]
                 ELSE [groups |-> st.groups,
                       currentGroup |-> Append(st.currentGroup, element)])

\* the grouping without the push of the last running group
groupContentByVisualSections_dropLast(d, elements) ==
    LET st == GroupLoop(d, elements, 1, [groups |-> <<>>, currentGroup |-> <<>>])
        groups == st.groups
    IN  IF Len(groups) > 0 THEN groups ELSE <<elements>>

groupContentByVisualSections(d, elements) ==
    LET st == GroupLoop(d, elements, 1, [groups |-> <<>>, currentGroup |-> <<>>])
        groups == IF Len(st.currentGroup) > 0
                  THEN Append(st.groups, st.currentGroup) ELSE st.groups
    IN  IF Len(groups) > 0 THEN groups ELSE <<elements>>

contentTags ==
    {"p", "h1", "h2", "h3", "h4", "h5", "h6", "div", "span", "article", "section"}
chromeSelectors ==
    << SelTag("nav"), SelTag("header"), SelTag("footer"), SelTag("script"),
       SelTag("style") >>

isContentElement(d, element) ==
    TagName(d, element) \in contentTags /\ ~Closest(d, element, chromeSelectors)

\* the tree walker skips (FILTER_SKIP) the elements it rejects and still
\* visits their descendants: every accepted descendant of <body>, in
\* document order
extractBodyContent(d) ==
    Sorted({el \in Els(d) : isContentElement(d, el) /\ hasSignificantContent(d, el)})

(***************************************************************************)
(* Content extraction (joomlaConverter.ts, lines 268-392 and 603-610)      *)
(***************************************************************************)
\* a value that may be null: getAttribute of an absent attribute
Null == [null |-> TRUE, v |-> <<>>]
Some(v) == [null |-> FALSE, v |-> v]
GetAttribute(d, i, n) ==
    IF HasAttribute(d, i, n) THEN Some(d.nodes[i].attrs[n]) ELSE Null
\* a nullable string passed on without the default after ||
OrElse_noDefault(x, dflt) == x.v

\* x || dflt for a nullable string x
OrElse(x, dflt) == IF x.null \/ x.v = <<>> THEN dflt ELSE x.v

\* the outline test placed before the primary test
buttonStyleOfClass_outlineFirst(cls) ==
    LET className == ToLowerCase(cls)
    IN  IF Includes(className, s_outline) THEN "outline"
        ELSE IF Includes(className, s_primary) \/ Includes(className, s_main) THEN "primary"
        ELSE IF Includes(className, s_secondary) THEN "secondary"
        ELSE IF Includes(className, s_ghost) THEN "text"
        ELSE "default"

\* the button style of a class attribute value (determineButtonStyle reads
\* element.className)
buttonStyleOfClass(cls) ==
    LET className == ToLowerCase(cls)
    IN  IF Includes(className, s_primary) \/ Includes(className, s_main) THEN "primary"
        ELSE IF Includes(className, s_secondary) THEN "secondary"
        ELSE IF Includes(className, s_outline) THEN "outline"
        ELSE IF Includes(className, s_ghost) THEN "text"
        ELSE "default"

determineButtonStyle(d, element) == buttonStyleOfClass(ClassName(d, element))

headingSelectors ==
    << SelTag("h1"), SelTag("h2"), SelTag("h3"), SelTag("h4"), SelTag("h5"),
       SelTag("h6") >>
textSelectors == << SelTag("p"), SelTag("div"), SelTag("span") >>
notPlainTextSelectors ==
    << SelTag("img"), SelTag("video"), SelTag("iframe"), SelTag("button"),
       SelTag("a") >>
listSelectors == << SelTag("ul"), SelTag("ol") >>
buttonSelectors ==
    << SelTag("button"), SelTagAttrSub("a", "class", s_btn), SelClass(s_button),
       SelTagAttrEq("input", "type", s_submit) >>
inputSelectors == << SelTag("input"), SelTag("textarea"), SelTag("select") >>

\* parseInt(heading.tagName.substring(1))
HeadingLevel(tag) ==
    CASE tag = "h1" -> 1 [] tag = "h2" -> 2 [] tag = "h3" -> 3
      [] tag = "h4" -> 4 [] tag = "h5" -> 5 [] tag = "h6" -> 6

\* tagName.toLowerCase() of a form control, as a string of the page
TagChars(tag) ==
    CASE tag = "input" -> s_input [] tag = "textarea" -> s_textarea
      [] tag = "select" -> s_select

\* the length over which the text of a p, div or span makes a text item
TextItemLength == 15

\* xs.map(f) for a sequence of elements
MapSeq(xs, F(_)) == [k \in 1..Len(xs) |-> F(xs[k])]
\* the subsequence of the elements that satisfy P, in order
FilterSeq(xs, P(_)) ==
    LET keep == Sorted({k \in 1..Len(xs) : P(xs[k])})
    IN  [j \in 1..Len(keep) |-> xs[keep[j]]]

headingItems(d, element) ==
    MapSeq(QuerySelectorAll(d, element, headingSelectors),
           LAMBDA h : [type |-> "heading", element |-> h,
                       content |-> TrimmedText(d, h), tag |-> TagName(d, h),
                       level |-> HeadingLevel(TagName(d, h))])

textItems(d, element) ==
    MapSeq(FilterSeq(QuerySelectorAll(d, element, textSelectors),
                     LAMBDA t : /\ Len(TrimmedText(d, t)) > TextItemLength
                                /\ QuerySelectorAll(d, t, notPlainTextSelectors) = <<>>),
           LAMBDA t : [type |-> "text", element |-> t, content |-> TrimmedText(d, t)])

imageItems(d, element) ==
    MapSeq(QuerySelectorAll(d, element, imgSelectors),
           LAMBDA img : [type |-> "image", element |-> img,
                         src |-> AttrOr(d, img, "src", <<>>),
                         alt |-> AttrOr(d, img, "alt", <<>>),
                         width |-> GetAttribute(d, img, "width"),
                         height |-> GetAttribute(d, img, "height")])

listItems(d, element) ==
    MapSeq(FilterSeq(QuerySelectorAll(d, element, listSelectors),
                     LAMBDA l : QuerySelectorAll(d, l, <<SelTag("li")>>) /= <<>>),
           LAMBDA l : [type |-> "list", element |-> l,
                       items |-> MapSeq(QuerySelectorAll(d, l, <<SelTag("li")>>),
                                        LAMBDA li : TrimmedText(d, li)),
                       ordered |-> TagName(d, l) = "ol"])

buttonItems(d, element) ==
    MapSeq(FilterSeq(QuerySelectorAll(d, element, buttonSelectors),
                     LAMBDA b : Len(TrimmedText(d, b)) > 0),
           LAMBDA b : [type |-> "button", element |-> b,
                       content |-> TrimmedText(d, b),
                       href |-> AttrOr(d, b, "href", AttrOr(d, b, "data-href", s_hash)),
                       style |-> determineButtonStyle(d, b)])

formInputs(d, form) ==
    MapSeq(QuerySelectorAll(d, form, inputSelectors),
           LAMBDA input : [type |-> AttrOr(d, input, "type", TagChars(TagName(d, input))),
                           name |-> AttrOr(d, input, "name", <<>>),
                           placeholder |-> AttrOr(d, input, "placeholder", <<>>),
                           required |-> HasAttribute(d, input, "required")])

formItems(d, element) ==
    MapSeq(FilterSeq(QuerySelectorAll(d, element, <<SelTag("form")>>),
                     LAMBDA f : formInputs(d, f) /= <<>>),
           LAMBDA f : [type |-> "form", element |-> f,
                       action |-> AttrOr(d, f, "action", <<>>),
                       method |-> AttrOr(d, f, "method", s_post),
                       inputs |-> formInputs(d, f)])

\* table.querySelectorAll('tbody tr'): the tr descendants of the table that
\* have a tbody ancestor
tableBodyRows(d, table) ==
    FilterSeq(QuerySelectorAll(d, table, <<SelTag("tr")>>),
              LAMBDA tr : \E a \in Ancestors(d, tr) : TagName(d, a) = "tbody")

tableHeaders(d, table) ==
    MapSeq(QuerySelectorAll(d, table, <<SelTag("th")>>), LAMBDA th : TrimmedText(d, th))

tableRows(d, table) ==
    MapSeq(tableBodyRows(d, table),
           LAMBDA tr : MapSeq(QuerySelectorAll(d, tr, <<SelTag("td")>>),
                              LAMBDA td : TrimmedText(d, td)))

tableItems(d, element) ==
    MapSeq(FilterSeq(QuerySelectorAll(d, element, <<SelTag("table")>>),
                     LAMBDA t : tableHeaders(d, t) /= <<>> \/ tableRows(d, t) /= <<>>),
           LAMBDA t : [type |-> "table", element |-> t,
                       headers |-> tableHeaders(d, t), rows |-> tableRows(d, t)])

mediaItems(d, element) ==
    MapSeq(QuerySelectorAll(d, element, mediaSelectors),
           LAMBDA m : [type |-> TagName(d, m), element |-> m,
                       src |-> AttrOr(d, m, "src", <<>>),
                       width |-> GetAttribute(d, m, "width"),
                       height |-> GetAttribute(d, m, "height")])

\* the items of one element with the images in front of the headings
elementContent_imagesFirst(d, element) ==
    imageItems(d, element) \o headingItems(d, element) \o textItems(d, element)
      \o listItems(d, element) \o buttonItems(d, element) \o formItems(d, element)
      \o tableItems(d, element) \o mediaItems(d, element)

\* the items one element of the group contributes, in the order of the code
elementContent(d, element) ==
    headingItems(d, element) \o textItems(d, element) \o imageItems(d, element)
      \o listItems(d, element) \o buttonItems(d, element) \o formItems(d, element)
      \o tableItems(d, element) \o mediaItems(d, element)

extractComprehensiveContent(d, elements) ==
    Concat(MapSeq(elements, LAMBDA element : elementContent(d, element)))

(***************************************************************************)
(* Layout inference and row assembly (joomlaConverter.ts, lines 394-465)   *)
(***************************************************************************)
Digits == {"0", "1", "2", "3", "4", "5", "6", "7", "8", "9"}
DigitVal(c) ==
    CASE c = "0" -> 0 [] c = "1" -> 1 [] c = "2" -> 2 [] c = "3" -> 3
      [] c = "4" -> 4 [] c = "5" -> 5 [] c = "6" -> 6 [] c = "7" -> 7
      [] c = "8" -> 8 [] c = "9" -> 9

\* parseInt of the (\d+) group that starts at position i of s
RECURSIVE ParseDigits(_, _, _)
ParseDigits(s, i, acc) ==
    IF i <= Len(s) /\ s[i] \in Digits
    THEN ParseDigits(s, i + 1, 10 * acc + DigitVal(s[i]))
    ELSE acc

\* className.match(/col-(\d+)|grid-cols-(\d+)/): the leftmost match;
\* [found, n] with n = parseInt(colMatches[1] || colMatches[2])
colMatches(className) ==
    LET at(i) == \/ /\ StartsAt(className, s_col_, i)
                    /\ i + 4 <= Len(className) /\ className[i + 4] \in Digits
                 \/ /\ StartsAt(className, s_grid_cols_, i)
                    /\ i + 10 <= Len(className) /\ className[i + 10] \in Digits
        hits == {i \in 1..Len(className) : at(i)}
    IN  IF hits = {} THEN [found |-> FALSE, n |-> 0]
        ELSE LET i == CHOOSE x \in hits : \A y \in hits : x <= y
             IN  [found |-> TRUE,
                  n |-> IF StartsAt(className, s_col_, i)
                        THEN ParseDigits(className, i + 4, 0)
                        ELSE ParseDigits(className, i + 10, 0)]

\* the most direct children that count as columns
MaxChildColumns == 4

\* the body of elements.forEach(element => ...) of analyzeLayoutStructure
analyzeElement(d, element, structure) ==
    LET className == ClassName(d, element)
        grid == Includes(className, s_grid) \/ Includes(className, s_col_)
        m == colMatches(className)
        columns1 == IF grid /\ m.found THEN Max(structure.columns, m.n)
                    ELSE structure.columns
        directChildren ==
            FilterSeq(Children(d, element), LAMBDA child : hasSignificantContent(d, child))
    IN  [columns |-> Max(columns1, Min(Len(directChildren), MaxChildColumns)),
         isGrid |-> structure.isGrid \/ grid,
         isFlex |-> structure.isFlex \/ Includes(className, s_flex)
                                     \/ Includes(className, s_row),
         hasCards |-> structure.hasCards \/ Includes(className, s_card)
                                         \/ Includes(className, s_panel),
         alignment |-> structure.alignment]

RECURSIVE AnalyzeLoop(_, _, _, _)
AnalyzeLoop(d, elements, k, structure) ==
    IF k > Len(elements) THEN structure
    ELSE AnalyzeLoop(d, elements, k + 1, analyzeElement(d, elements[k], structure))

analyzeLayoutStructure(d, elements) ==
    AnalyzeLoop(d, elements, 1,
        [columns |-> 1, isGrid |-> FALSE, isFlex |-> FALSE, hasCards |-> FALSE,
         alignment |-> "left"])

\* `${100 / n}%` as JavaScript prints it
PercentString(n) ==
    CASE n = 1 -> <<"1", "0", "0", "%">>
      [] n = 2 -> <<"5", "0", "%">>
      [] n = 3 -> <<"3", "3", ".", "3", "3", "3", "3", "3", "3", "3", "3", "3", "3", "3", "3", "3", "3", "6", "%">>
      [] n = 4 -> <<"2", "5", "%">>
      [] n = 5 -> <<"2", "0", "%">>
      [] n = 6 -> <<"1", "6", ".", "6", "6", "6", "6", "6", "6", "6", "6", "6", "6", "6", "6", "6", "6", "8", "%">>
      [] n = 7 -> <<"1", "4", ".", "2", "8", "5", "7", "1", "4", "2", "8", "5", "7", "1", "4", "2", "8", "6", "%">>
      [] n = 8 -> <<"1", "2", ".", "5", "%">>
      [] n = 9 -> <<"1", "1", ".", "1", "1", "1", "1", "1", "1", "1", "1", "1", "1", "1", "1", "1", "1", "%">>
      [] n = 10 -> <<"1", "0", "%">>
      [] n = 11 -> <<"9", ".", "0", "9", "0", "9", "0", "9", "0", "9", "0", "9", "0", "9", "0", "9", "2", "%">>
      [] n = 12 -> <<"8", ".", "3", "3", "3", "3", "3", "3", "3", "3", "3", "3", "3", "3", "3", "3", "4", "%">>

s_100pct == <<"1", "0", "0", "%">>

\* the rendering of a form item as markup: the literal pieces of the template
\* are single entries, the interpolated values are spliced in
renderInput(input) ==
    <<"<input type=\"">> \o input.type \o <<"\" name=\"">> \o input.name
      \o <<"\" placeholder=\"">> \o input.placeholder \o <<"\" ">>
      \o (IF input.required THEN <<"required">> ELSE <<>>) \o <<">">>

RECURSIVE JoinLines(_)
JoinLines(ss) ==
    IF ss = <<>> THEN <<>>
    ELSE IF Len(ss) = 1 THEN ss[1]
    ELSE ss[1] \o <<"\n">> \o JoinLines(Tail(ss))

renderForm(item) ==
    <<"<form action=\"">> \o item.action \o <<"\" method=\"">> \o item.method
      \o <<"\">\n              ">> \o JoinLines(MapSeq(item.inputs, renderInput))
      \o <<"\n            </form>">>

convertContentToYOOtheme(item) ==
    CASE item.type = "heading" ->
            [type |-> "heading",
             settings |-> [content |-> item.content, tag |-> item.tag,
                           style |-> IF item.level <= 2 THEN "primary" ELSE "default",
                           margin |-> "small"]]
      [] item.type = "text" ->
            [type |-> "text",
             settings |-> [content |-> item.content, margin |-> "default"]]
      [] item.type = "image" ->
            [type |-> "image",
             settings |-> [image |-> item.src, alt |-> item.alt,
                           width |-> OrElse(item.width, s_auto),
                           height |-> OrElse(item.height, s_auto),
                           border |-> "rounded"]]
      [] item.type = "list" ->
            [type |-> "list",
             settings |-> [items |-> item.items,
                           style |-> IF item.ordered THEN "numbered" ELSE "bullet",
                           marker |-> "default"]]
      [] item.type = "button" ->
            [type |-> "button",
             settings |-> [content |-> item.content, link |-> item.href,
                           style |-> item.style, size |-> "default"]]
      [] item.type = "form" ->
            [type |-> "html", settings |-> [content |-> renderForm(item)]]
      [] item.type = "table" ->
            [type |-> "table",
             settings |-> [headers |-> item.headers, rows |-> item.rows,
                           style |-> "striped"]]
      [] item.type \in {"video", "iframe"} ->
            [type |-> "video",
             settings |-> [source |-> item.src,
                           width |-> OrElse(item.width, s_100pct),
                           height |-> OrElse(item.height, s_auto)]]
      [] OTHER ->
            \* item.content || '' : an audio item has no content field
            [type |-> "html",
             settings |-> [content |-> IF "content" \in DOMAIN item
                                       THEN item.content ELSE <<>>]]


\* the rows of the loop with the default gap for every layout
RECURSIVE ChunkRows_gapDefault(_, _, _)
ChunkRows_gapDefault(content, structure, i) ==
    IF i > Len(content) THEN <<>>
    ELSE LET itemsPerRow == structure.columns
             rowContent == SubSeq(content, i, Min(i + itemsPerRow - 1, Len(content)))
             columns ==
                 MapSeq(rowContent,
                        LAMBDA item :
                            [type |-> "column",
                             settings |-> [width |-> PercentString(Max(Len(rowContent), 1)),
                                           alignment |-> structure.alignment],
                             children |-> <<convertContentToYOOtheme(item)>>])
         IN  << [columns |-> columns,
                 gap |-> "default",
                 alignment |-> IF structure.isFlex THEN "center" ELSE "stretch"] >>
               \o ChunkRows_gapDefault(content, structure, i + itemsPerRow)

\* the width of a column taken from the columns of the layout, not from the
\* items of the row
RECURSIVE ChunkRows_widthByColumns(_, _, _)
ChunkRows_widthByColumns(content, structure, i) ==
    IF i > Len(content) THEN <<>>
    ELSE LET itemsPerRow == structure.columns
             rowContent == SubSeq(content, i, Min(i + itemsPerRow - 1, Len(content)))
             columns ==
                 MapSeq(rowContent,
                        LAMBDA item :
                            [type |-> "column",
                             settings |-> [width |-> PercentString(Max(itemsPerRow, 1)),
                                           alignment |-> structure.alignment],
                             children |-> <<convertContentToYOOtheme(item)>>])
         IN  << [columns |-> columns,
                 gap |-> IF structure.isGrid THEN "large" ELSE "default",
                 alignment |-> IF structure.isFlex THEN "center" ELSE "stretch"] >>
               \o ChunkRows_widthByColumns(content, structure, i + itemsPerRow)

\* the rows the for loop of organizeContentIntoRows pushes, from item i on
\* (1-based)
RECURSIVE ChunkRows(_, _, _)
ChunkRows(content, structure, i) ==
    IF i > Len(content) THEN <<>>
    ELSE LET itemsPerRow == structure.columns
             rowContent == SubSeq(content, i, Min(i + itemsPerRow - 1, Len(content)))
             columns ==
                 MapSeq(rowContent,
                        LAMBDA item :
                            [type |-> "column",
                             settings |-> [width |-> PercentString(Max(Len(rowContent), 1)),
                                           alignment |-> structure.alignment],
                             children |-> <<convertContentToYOOtheme(item)>>])
         IN  << [columns |-> columns,
                 gap |-> IF structure.isGrid THEN "large" ELSE "default",
                 alignment |-> IF structure.isFlex THEN "center" ELSE "stretch"] >>
               \o ChunkRows(content, structure, i + itemsPerRow)

\* the first row of the loop alone: the items of the later rows are dropped
organizeContentIntoRows_firstRow(content, structure) ==
    LET rows == ChunkRows(content, structure, 1)
    IN  IF Len(rows) > 0 THEN <<rows[1]>>
        ELSE << [columns |-> << [type |-> "column",
                                 settings |-> [width |-> s_100pct],
                                 children |-> <<>>] >>,
                 gap |-> "default",
                 alignment |-> "stretch"] >>

\* every item in one column of a single row, whatever the column count
organizeContentIntoRows_oneRow(content, structure) ==
    << [columns |-> MapSeq(content,
                       LAMBDA item :
                           [type |-> "column",
                            settings |-> [width |-> s_100pct,
                                          alignment |-> structure.alignment],
                            children |-> <<convertContentToYOOtheme(item)>>]),
        gap |-> IF structure.isGrid THEN "large" ELSE "default",
        alignment |-> IF structure.isFlex THEN "center" ELSE "stretch"] >>

\* the rows of the loop alone, without the single-column row for no rows
organizeContentIntoRows_noFallback(content, structure) ==
    ChunkRows(content, structure, 1)


organizeContentIntoRows(content, structure) ==
    LET rows == ChunkRows(content, structure, 1)
    IN  IF Len(rows) > 0 THEN rows
        ELSE << [columns |-> << [type |-> "column",
                                 settings |-> [width |-> s_100pct],
                                 children |-> MapSeq(content, convertContentToYOOtheme)] >>,
                 gap |-> "default",
                 alignment |-> "stretch"] >>

(***************************************************************************)
(* Sections (joomlaConverter.ts, lines 199-266 and 565-654)                *)
(***************************************************************************)
determineSectionStyle(d, elements, index) ==
    LET hasHero == \E k \in 1..Len(elements) :
                       \/ Includes(ClassName(d, elements[k]), s_hero)
                       \/ Includes(ClassName(d, elements[k]), s_banner)
                       \/ Includes(ClassName(d, elements[k]), s_jumbotron)
    IN  IF hasHero THEN "hero"
        ELSE IF index = 0 THEN "primary"
        ELSE IF index % 2 = 0 THEN "default"
        ELSE "muted"

\* the text length and the number of images/videos over which one element
\* makes the padding large
LargeTextLength == 500
LargeMediaCount == 2

determinePadding(d, elements) ==
    LET hasLargeContent ==
            \E k \in 1..Len(elements) :
                \/ Len(TrimmedText(d, elements[k])) > LargeTextLength
                \/ Len(QuerySelectorAll(d, elements[k],
                                        <<SelTag("img"), SelTag("video")>>)) > LargeMediaCount
    IN  IF hasLargeContent THEN "large" ELSE "default"

bgClasses == <<s_bg_, s_background_, s_section_>>

\* the value the loop body of extractBackgroundStyle returns for one element,
\* "" when it returns nothing
elementBackground(className) ==
    IF \E k \in 1..Len(bgClasses) : Includes(className, bgClasses[k])
    THEN IF Includes(className, s_dark) THEN "dark"
         ELSE IF Includes(className, s_light) THEN "light"
         ELSE IF Includes(className, s_primary) THEN "primary"
         ELSE ""
    ELSE ""

extractBackgroundStyle(d, elements) ==
    LET hits == {k \in 1..Len(elements) : elementBackground(ClassName(d, elements[k])) /= ""}
    IN  IF hits = {} THEN "default"
        ELSE elementBackground(ClassName(d, elements[CHOOSE k \in hits : \A j \in hits : k <= j]))

\* a.textContent / a.getAttribute('href') of the links below an element
linksOf(d, element) ==
    MapSeq(QuerySelectorAll(d, element, <<SelTag("a")>>),
           LAMBDA a : [text |-> TrimmedText(d, a), href |-> AttrOr(d, a, "href", s_hash)])

createHeaderSection(d, element) ==
    LET navs == QuerySelectorAll(d, element, <<SelTag("nav")>>)
        nav == IF navs /= <<>> THEN navs[1] ELSE element
        links == linksOf(d, nav)
    IN  [type |-> "header",
         settings |-> [layout |-> "stacked", background |-> "primary",
                       padding |-> "default"],
         children |-> <<
           [type |-> "row",
            settings |-> <<>>,
            children |-> <<
              [type |-> "column",
               settings |-> [width |-> s_100pct],
               children |-> <<
                 [type |-> "menu",
                  settings |-> [menu |-> "mainmenu", style |-> "nav",
                                items |-> links]] >>] >>] >>]

createAdvancedContentSection(d, elements, index) ==
    LET allContent == extractComprehensiveContent(d, elements)
        layoutStructure == analyzeLayoutStructure(d, elements)
        rows == organizeContentIntoRows(allContent, layoutStructure)
        children == MapSeq(rows,
                        LAMBDA row : [type |-> "row",
                                      settings |-> [gap |-> row.gap,
                                                    alignment |-> row.alignment],
                                      children |-> row.columns])
    IN  [type |-> "section",
         settings |-> [style |-> determineSectionStyle(d, elements, index),
                       padding |-> determinePadding(d, elements),
                       margin |-> "default",
                       background |-> extractBackgroundStyle(d, elements)],
         children |-> children]

createFooterSection(d, element) ==
    LET footerText == TrimmedText(d, element)
        links == linksOf(d, element)
    IN  [type |-> "footer",
         settings |-> [style |-> "secondary", padding |-> "default"],
         children |-> <<
           [type |-> "row",
            settings |-> <<>>,
            children |-> <<
              [type |-> "column",
               settings |-> [width |-> s_100pct],
               children |->
                 << [type |-> "text",
                     settings |-> [content |-> footerText, align |-> "center"]] >>
                 \o (IF Len(links) > 0
                     THEN << [type |-> "menu",
                              settings |-> [style |-> "footer", items |-> links]] >>
                     ELSE <<>>)] >>] >>]

(***************************************************************************)
(* Asset extraction (joomlaConverter.ts, lines 671-755)                    *)
(***************************************************************************)
Quotes == {"'", "\""}
\* the characters [^'")\s] leaves out
UrlStop == Quotes \cup {")"} \cup WhiteSpace

\* the first position >= j of s that holds a character of the set, Len(s)+1
\* when there is none
RECURSIVE SkipUntil(_, _, _)
SkipUntil(s, j, stop) ==
    IF j > Len(s) \/ s[j] \in stop THEN j ELSE SkipUntil(s, j + 1, stop)

RECURSIVE SkipWhile(_, _, _)
SkipWhile(s, j, set) ==
    IF j <= Len(s) /\ s[j] \in set THEN SkipWhile(s, j + 1, set) ELSE j

\* /url\(['"]?([^'")\s]+)['"]?\)/ anchored at position i of s:
\* [ok, url (group 1), next (the position after the match)]
UrlAt(s, i) ==
    IF ~StartsAt(s, s_url_open, i) THEN [ok |-> FALSE, url |-> <<>>, next |-> i]
    ELSE LET j == IF i + 4 <= Len(s) /\ s[i + 4] \in Quotes THEN i + 5 ELSE i + 4
             k == SkipUntil(s, j, UrlStop)
             c == IF k <= Len(s) /\ s[k] \in Quotes THEN k + 1 ELSE k
         IN  IF k > j /\ c <= Len(s) /\ s[c] = ")"
             THEN [ok |-> TRUE, url |-> SubSeq(s, j, k - 1), next |-> c + 1]
             ELSE [ok |-> FALSE, url |-> <<>>, next |-> i]

\* style.match(/background-image:\s*url\(['"]?([^'")\s]+)['"]?\)/): the
\* leftmost match, [ok, url]
backgroundImageMatch(style) ==
    LET head == s_background_image \o s_colon
        at(i) == IF StartsAt(style, head, i)
                 THEN UrlAt(style, SkipWhile(style, i + Len(head), WhiteSpace))
                 ELSE [ok |-> FALSE, url |-> <<>>, next |-> i]
        hits == {i \in 1..Len(style) : at(i).ok}
    IN  IF hits = {} THEN [ok |-> FALSE, url |-> <<>>]
        ELSE [ok |-> TRUE, url |-> at(CHOOSE i \in hits : \A j \in hits : i <= j).url]

\* cssText.match(/url\(...\)/g), each match matched again for its group 1:
\* the urls of the successive matches from position i on
RECURSIVE cssUrls(_, _)
cssUrls(cssText, i) ==
    IF i > Len(cssText) THEN <<>>
    ELSE LET m == UrlAt(cssText, i)
         IN  IF m.ok THEN <<m.url>> \o cssUrls(cssText, m.next)
             ELSE cssUrls(cssText, i + 1)

\* an array push in place of Set.add
SetAdd_noDedup(set, x) == Append(set, x)

\* Set.prototype.add on a set kept in insertion order
SetAdd(set, x) == IF x \in Range(set) THEN set ELSE Append(set, x)
RECURSIVE SetAddAll(_, _)
SetAddAll(set, xs) ==
    IF xs = <<>> THEN set ELSE SetAddAll(SetAdd(set, Head(xs)), Tail(xs))

\* the src values img tags add to the set
imgSources(d) ==
    MapSeq(FilterSeq(QuerySelectorAll(d, 0, imgSelectors),
                     LAMBDA img : AttrOr(d, img, "src", <<>>) /= <<>>),
           LAMBDA img : d.nodes[img].attrs["src"])

\* the style attribute of <body> comes first in doc.querySelectorAll('*')
inlineStyles(d) ==
    (IF d.bodyStyle /= <<>> THEN <<d.bodyStyle>> ELSE <<>>)
      \o MapSeq(FilterSeq(Sorted(Els(d)), LAMBDA el : AttrOr(d, el, "style", <<>>) /= <<>>),
                LAMBDA el : d.nodes[el].attrs["style"])

\* the urls the inline background images add to the set
backgroundSources(d) ==
    MapSeq(FilterSeq(inlineStyles(d),
                     LAMBDA style : /\ Includes(style, s_background_image)
                                    /\ backgroundImageMatch(style).ok
                                    /\ backgroundImageMatch(style).url /= <<>>),
           LAMBDA style : backgroundImageMatch(style).url)

\* the urls the style blocks add to the set
styleBlockSources(d) ==
    Concat(MapSeq(QuerySelectorAll(d, 0, <<SelTag("style")>>),
                  LAMBDA styleEl : cssUrls(TextContent(d, styleEl), 1)))

\* the Set of image urls extractAssets collects, in insertion order
collectedImages(d) ==
    SetAddAll(SetAddAll(SetAddAll(<<>>, imgSources(d)), backgroundSources(d)),
              styleBlockSources(d))

\* img.split('/').pop()
LastSegment(s) ==
    LET slashes == {i \in 1..Len(s) : s[i] = "/"}
    IN  IF slashes = {} THEN s
        ELSE SubSeq(s, (CHOOSE i \in slashes : \A j \in slashes : j <= i) + 1, Len(s))

\* `/media/converted/${img.split('/').pop() || 'image.jpg'}`
convertedPath(img) ==
    LET filename == IF LastSegment(img) /= <<>> THEN LastSegment(img) ELSE s_image_jpg
    IN  s__media_converted_ \o filename

\* the aggregated stylesheet: the literal pieces are single entries
collectedStyles(d) ==
    MapSeq(FilterSeq(QuerySelectorAll(d, 0, <<SelTag("style")>>),
                     LAMBDA st : Trim(TextContent(d, st)) /= <<>>),
           LAMBDA st : TextContent(d, st))
      \o MapSeq(FilterSeq(QuerySelectorAll(d, 0, <<SelTagAttrEq("link", "rel", s_stylesheet)>>),
                          LAMBDA l : AttrOr(d, l, "href", <<>>) /= <<>>),
                LAMBDA l : <<"@import url('">> \o d.nodes[l].attrs["href"] \o <<"');">>)
      \o (IF d.bodyStyle /= <<>>
          THEN << <<"body { ">> \o d.bodyStyle \o <<" }">> >> ELSE <<>>)

RECURSIVE JoinBlank(_)
JoinBlank(ss) ==
    IF ss = <<>> THEN <<>>
    ELSE IF Len(ss) = 1 THEN ss[1]
    ELSE ss[1] \o <<"\n\n">> \o JoinBlank(Tail(ss))

extractAssets(d) ==
    [images |-> MapSeq(collectedImages(d), convertedPath),
     styles |-> <<"\n/* Converted from original website */\n">>
                  \o JoinBlank(collectedStyles(d))
                  \o <<"\n\n/* YOOtheme compatibility styles */ ...">>]

(***************************************************************************)
(* The pages of the model                                                  *)
(***************************************************************************)
t_Welcome == <<"W", "e", "l", "c", "o", "m", "e">>
t_Home == <<"H", "o", "m", "e">>
\* "This is a long enough paragraph to qualify as significant content."
t_Paragraph ==
    <<"T", "h", "i", "s", " ", "i", "s", " ", "a", " ", "l", "o", "n", "g", " ",
      "e", "n", "o", "u", "g", "h", " ", "p", "a", "r", "a", "g", "r", "a", "p",
      "h", " ", "t", "o", " ", "q", "u", "a", "l", "i", "f", "y", " ", "a", "s",
      " ", "s", "i", "g", "n", "i", "f", "i", "c", "a", "n", "t", " ", "c", "o",
      "n", "t", "e", "n", "t", ".">>
t_Copyright == <<"(", "c", ")", " ", "2", "0", "2", "4">>
\* a text just over the significance threshold, and one between the text-item
\* threshold and the significance threshold
t_Long == Rep("x", SignificantTextLength + 1)
t_Medium == Rep("y", TextItemLength + 3)

u_ax == <<"a", "/", "x">>
u_bx == <<"b", "/", "x">>
u_dir == <<"a", "/">>
u_y == <<"y">>

Kind(tag, attrs, text) == [tag |-> tag, attrs |-> attrs, text |-> text]

\* the element kinds of the generated pages of Spec
StructKinds ==
    { Kind("header", NoAttrs, <<>>),
      Kind("footer", NoAttrs, t_Copyright),
      Kind("main", NoAttrs, <<>>),
      Kind("section", NoAttrs, <<>>),
      Kind("div", [class |-> s_content], t_Long),
      Kind("div", [class |-> s_hero], t_Medium),
      Kind("div", NoAttrs, t_Long),
      Kind("h1", NoAttrs, t_Welcome),
      Kind("p", NoAttrs, t_Long),
      Kind("img", [src |-> u_ax], <<>>),
      Kind("a", [href |-> s_slash], t_Home) }

\* the tags whose elements the HTML parser never gives element children
LeafTags == {"img", "input", "link", "style", "script"}
\* the start tags that close an open <p>
PClosers ==
    {"header", "nav", "footer", "main", "section", "article", "aside", "div", "p",
     "h1", "h2", "h3", "h4", "h5", "h6", "ul", "ol", "dl", "form", "table"}
HeadingTags == {"h1", "h2", "h3", "h4", "h5", "h6"}

\* the parser can put an element of this tag below the element p of nodes
CanNest(nodes, p, tag) ==
    LET d == [nodes |-> nodes, bodyStyle |-> <<>>]
        up == IF p = 0 THEN {} ELSE {p} \cup Ancestors(d, p)
    IN  /\ p /= 0 => nodes[p].tag \notin LeafTags
        /\ tag \in PClosers => \A a \in up : nodes[a].tag /= "p"
        /\ (p /= 0 /\ tag \in HeadingTags) => nodes[p].tag \notin HeadingTags
        /\ tag = "a" => \A a \in up : nodes[a].tag /= "a"
        /\ tag = "form" => \A a \in up : nodes[a].tag /= "form"

\* where the next element in document order can hang: below <body>, or below
\* the last element or one of its ancestors
AttachPoints(nodes) ==
    IF nodes = <<>> THEN {0}
    ELSE {0, Len(nodes)} \cup Ancestors([nodes |-> nodes, bodyStyle |-> <<>>], Len(nodes))

\* the node sequences of n elements made of the kinds
RECURSIVE TreesOfSize(_, _)
TreesOfSize(n, kinds) ==
    IF n = 0 THEN {<<>>}
    ELSE UNION { UNION { { Append(nodes, Node(k.tag, p, k.attrs, k.text)) :
                             k \in {x \in kinds : CanNest(nodes, p, x.tag)} } :
                         p \in AttachPoints(nodes) } :
                 nodes \in TreesOfSize(n - 1, kinds) }

\* the pages of at most MaxNodes elements made of the kinds, <body> carrying
\* one of the style attributes (<<>>: none)
DocsWith(kinds, bodyStyles) ==
    { [nodes |-> nodes, bodyStyle |-> st] :
        nodes \in UNION {TreesOfSize(n, kinds) : n \in 0..MaxNodes},
        st \in bodyStyles }

DocsOf(kinds) == DocsWith(kinds, {<<>>})

\* <header><nav><a href="/">Home</a></nav></header><main><section><h1>Welcome
\* </h1><p>This is a long enough paragraph ...</p></section></main><footer>...
EndToEndDoc ==
    [nodes |-> << Node("header", 0, NoAttrs, <<>>),
                  Node("nav", 1, NoAttrs, <<>>),
                  Node("a", 2, [href |-> s_slash], t_Home),
                  Node("main", 0, NoAttrs, <<>>),
                  Node("section", 4, NoAttrs, <<>>),
                  Node("h1", 5, NoAttrs, t_Welcome),
                  Node("p", 5, NoAttrs, t_Paragraph),
                  Node("footer", 0, NoAttrs, t_Copyright) >>,
     bodyStyle |-> <<>>]

CuratedDocs == { EndToEndDoc }


\* style attribute values and a style block
st_bg_ax == s_background_image \o s_colon \o s_url_open \o u_ax \o <<")">>
st_bg_bx == s_background_image \o s_colon \o s_url_open \o u_bx \o <<")">>
st_bg_y_quoted ==
    s_background_image \o <<":", " ">> \o s_url_open \o <<"'">> \o u_y \o <<"'", ")">>
st_bg_none == s_background_image \o <<":", "n", "o", "n", "e">>
css_two_urls ==
    <<"p", "{">> \o s_url_open \o u_ax \o <<")", ";">> \o s_url_open \o <<"\"">>
      \o u_y \o <<"\"", ")", "}">>

\* the element kinds of the generated pages of SpecAssets
AssetKinds ==
    { Kind("img", [src |-> u_ax], <<>>),
      Kind("img", [src |-> u_bx], <<>>),
      Kind("img", [src |-> u_dir], <<>>),
      Kind("img", NoAttrs, <<>>),
      Kind("div", [style |-> st_bg_ax], <<>>),
      Kind("div", [style |-> st_bg_y_quoted], t_Long),
      Kind("div", [style |-> st_bg_none], <<>>),
      Kind("style", NoAttrs, css_two_urls),
      Kind("link", [rel |-> s_stylesheet, href |-> u_y], <<>>),
      Kind("p", NoAttrs, t_Long) }


\* the element kinds of the generated pages of SpecLayout: containers with and
\* without a column class, and the elements that become content items
c_grid_cols_3 == s_grid_cols_ \o <<"3">>
c_row_col_6 == s_row \o s_space \o s_col_ \o <<"6">>
c_col_2 == s_col_ \o <<"2">>
c_main_content == s_main \o <<"-">> \o s_content

LayoutKinds ==
    { Kind("section", [class |-> c_grid_cols_3], t_Long),
      Kind("div", [class |-> c_row_col_6], <<>>),
      Kind("main", NoAttrs, <<>>),
      Kind("h1", NoAttrs, t_Welcome),
      Kind("p", NoAttrs, t_Long),
      Kind("img", [src |-> u_ax], <<>>),
      Kind("audio", [src |-> u_y], <<>>) }

\* <section class="grid-cols-3"> with four images
GridOverflowDoc ==
    [nodes |-> << Node("section", 0, [class |-> c_grid_cols_3], <<>>),
                  Node("img", 1, [src |-> u_ax], <<>>),
                  Node("img", 1, [src |-> u_bx], <<>>),
                  Node("img", 1, [src |-> u_y], <<>>),
                  Node("img", 1, [src |-> u_dir], <<>>) >>,
     bodyStyle |-> <<>>]

\* <section class="col-2"> with three paragraphs
ColTwoDoc ==
    [nodes |-> << Node("section", 0, [class |-> c_col_2], <<>>),
                  Node("p", 1, NoAttrs, t_Long),
                  Node("p", 1, NoAttrs, t_Paragraph),
                  Node("p", 1, NoAttrs, t_Long) >>,
     bodyStyle |-> <<>>]

\* <main> with two blocks of two images each
TwoBlocksDoc ==
    [nodes |-> << Node("main", 0, NoAttrs, <<>>),
                  Node("div", 1, NoAttrs, <<>>),
                  Node("img", 2, [src |-> u_ax], <<>>),
                  Node("img", 2, [src |-> u_bx], <<>>),
                  Node("div", 1, NoAttrs, <<>>),
                  Node("img", 5, [src |-> u_y], <<>>),
                  Node("img", 5, [src |-> u_dir], <<>>) >>,
     bodyStyle |-> <<>>]

\* two content blocks followed by a block whose class holds the word main
MainContentDoc ==
    [nodes |-> << Node("div", 0, [class |-> s_content], t_Long),
                  Node("div", 0, [class |-> s_content], t_Paragraph),
                  Node("div", 0, [class |-> c_main_content], t_Long) >>,
     bodyStyle |-> <<>>]

\* a content block with an image followed by a content block with a heading
MixedGroupDoc ==
    [nodes |-> << Node("div", 0, [class |-> s_content], t_Long),
                  Node("img", 1, [src |-> u_ax], <<>>),
                  Node("div", 0, [class |-> s_content], t_Long),
                  Node("h1", 3, NoAttrs, t_Welcome) >>,
     bodyStyle |-> <<>>]

\* a content block with two images followed by a content block with one
ThreeImagesDoc ==
    [nodes |-> << Node("div", 0, [class |-> s_content], t_Long),
                  Node("img", 1, [src |-> u_ax], <<>>),
                  Node("img", 1, [src |-> u_bx], <<>>),
                  Node("div", 0, [class |-> s_content], t_Long),
                  Node("img", 4, [src |-> u_y], <<>>) >>,
     bodyStyle |-> <<>>]

LayoutCuratedDocs ==
    { GridOverflowDoc, ColTwoDoc, TwoBlocksDoc, MainContentDoc, MixedGroupDoc,
      ThreeImagesDoc }

\* a section whose image, video, button and form controls carry no attribute
AbsentAttrsDoc ==
    [nodes |-> << Node("section", 0, NoAttrs, <<>>),
                  Node("img", 1, NoAttrs, <<>>),
                  Node("video", 1, NoAttrs, <<>>),
                  Node("button", 1, NoAttrs, t_Home),
                  Node("form", 1, NoAttrs, <<>>),
                  Node("input", 5, NoAttrs, <<>>) >>,
     bodyStyle |-> <<>>]

\* the same elements with their attributes set
PresentAttrsDoc ==
    [nodes |-> << Node("section", 0, NoAttrs, <<>>),
                  Node("img", 1, [src |-> u_ax, alt |-> t_Home, width |-> <<"3">>,
                                  height |-> <<"2">>], <<>>),
                  Node("video", 1, [src |-> u_y, width |-> <<"3">>,
                                    height |-> <<"2">>], <<>>),
                  Node("a", 1, [class |-> s_btn, href |-> s_slash], t_Home) >>,
     bodyStyle |-> <<>>]

AttrCuratedDocs == { AbsentAttrsDoc, PresentAttrsDoc }

\* the element kinds of the generated pages of SpecTotal: elements with and
\* without the attributes, matches and children the converter reads
ReadSiteKinds ==
    { Kind("header", NoAttrs, <<>>),
      Kind("footer", NoAttrs, <<>>),
      Kind("a", NoAttrs, t_Home),
      Kind("div", [class |-> s_grid], t_Long),
      Kind("div", [class |-> s_content \o s_space \o s_col_ \o <<"m", "d">>], t_Long),
      Kind("div", [class |-> s_grid_cols_ \o <<"3">>], <<>>),
      Kind("div", [style |-> st_bg_none], t_Long),
      Kind("img", NoAttrs, <<>>),
      Kind("section", NoAttrs, t_Long),
      Kind("form", NoAttrs, <<>>),
      Kind("input", NoAttrs, <<>>) }


(***************************************************************************)
(* convertWebsiteToJoomla as a state machine (joomlaConverter.ts, 35-91)   *)
(***************************************************************************)
VARIABLES
    doc,                 \* the parsed page of the conversion
    pc,                  \* where convertWebsiteToJoomla stands
    sections,            \* parseHtmlToSections: const sections
    allContentElements,  \* parseHtmlToSections: const allContentElements
    groupedContent,      \* parseHtmlToSections: const groupedContent
    bodyContent,         \* parseHtmlToSections: const bodyContent
    result               \* what convertWebsiteToJoomla returned (none or one)

convVars == <<doc, pc, sections, allContentElements, groupedContent, bodyContent, result>>

\* the guards of the code in front of the reads that fail on null/undefined
hasHeaderElements(headerElements) == Len(headerElements) > 0
hasFooterElements(footerElements) == Len(footerElements) > 0
\* colMatches[1] read without the null check
colMatchesGuard_always(m) == TRUE

\* if (colMatches)
colMatchesGuard(m) == m.found
\* if (style && ...): the attribute is neither null nor empty
styleGuard(style) == ~style.null /\ style.v /= <<>>
\* if (match && match[1])
matchGuard(m) == m.ok

\* analyzeLayoutStructure reads colMatches[1] of a null match
layoutReadThrows(d, elements) ==
    \E k \in 1..Len(elements) :
        LET className == ClassName(d, elements[k])
            m == colMatches(className)
        IN  /\ Includes(className, s_grid) \/ Includes(className, s_col_)
            /\ colMatchesGuard(m)
            /\ ~m.found

\* extractAssets calls includes on a null style, or reads match[1] of a null
\* match
assetReadThrows(d) ==
    \E el \in Els(d) :
        LET style == GetAttribute(d, el, "style")
        IN  /\ styleGuard(style)
            /\ \/ style.null
               \/ /\ Includes(style.v, s_background_image)
                  /\ matchGuard(backgroundImageMatch(style.v))
                  /\ ~backgroundImageMatch(style.v).ok

\* groupedContent.forEach((group, index) => sections.push(...))
contentSections(d, groups) ==
    [k \in 1..Len(groups) |-> createAdvancedContentSection(d, groups[k], k - 1)]

\* bodyContent.forEach((content, index) => sections.push(
\*     createAdvancedContentSection([content], index + sections.length)))
\* sections.length is read at every iteration, after the previous pushes
fallbackSections(d, contents, length) ==
    [k \in 1..Len(contents) |->
        createAdvancedContentSection(d, <<contents[k]>>, (k - 1) + (length + (k - 1)))]

Threw ==
    /\ pc' = "threw"
    /\ UNCHANGED <<doc, sections, allContentElements, groupedContent, bodyContent, result>>

\* lines 60-64
ParseHeader ==
    /\ pc = "parse"
    /\ LET headerElements == QuerySelectorAll(doc, 0, headerSelectors)
       IN  IF hasHeaderElements(headerElements)
           THEN IF headerElements = <<>> THEN Threw
                ELSE /\ sections' = Append(sections, createHeaderSection(doc, headerElements[1]))
                     /\ pc' = "discover"
                     /\ UNCHANGED <<doc, allContentElements, groupedContent, bodyContent, result>>
           ELSE /\ pc' = "discover"
                /\ UNCHANGED <<doc, sections, allContentElements, groupedContent,
                               bodyContent, result>>

\* lines 66-72
DiscoverContent ==
    /\ pc = "discover"
    /\ LET elements == discoverContentElements(doc)
           groups == groupContentByVisualSections(doc, elements)
       IN  IF \E k \in 1..Len(groups) : layoutReadThrows(doc, groups[k]) THEN Threw
           ELSE /\ allContentElements' = elements
                /\ groupedContent' = groups
                /\ sections' = sections \o contentSections(doc, groups)
                /\ pc' = "fallback"
                /\ UNCHANGED <<doc, bodyContent, result>>

\* lines 74-82
BodyFallback ==
    /\ pc = "fallback"
    /\ IF Len(sections) <= 1
       THEN LET contents == extractBodyContent(doc)
            IN  IF \E k \in 1..Len(contents) : layoutReadThrows(doc, <<contents[k]>>)
                THEN Threw
                ELSE /\ bodyContent' = contents
                     /\ sections' = sections \o fallbackSections(doc, contents, Len(sections))
                     /\ pc' = "footer"
                     /\ UNCHANGED <<doc, allContentElements, groupedContent, result>>
       ELSE /\ pc' = "footer"
            /\ UNCHANGED <<doc, sections, allContentElements, groupedContent,
                           bodyContent, result>>

\* the footer section put in front (unshift in place of push)
ParseFooter_unshift ==
    /\ pc = "footer"
    /\ LET footerElements == QuerySelectorAll(doc, 0, footerSelectors)
       IN  IF hasFooterElements(footerElements) /\ footerElements /= <<>>
           THEN sections' = <<createFooterSection(doc, footerElements[1])>> \o sections
           ELSE sections' = sections
    /\ pc' = "assets"
    /\ UNCHANGED <<doc, allContentElements, groupedContent, bodyContent, result>>

\* lines 84-90
ParseFooter ==
    /\ pc = "footer"
    /\ LET footerElements == QuerySelectorAll(doc, 0, footerSelectors)
       IN  IF hasFooterElements(footerElements)
           THEN IF footerElements = <<>> THEN Threw
                ELSE /\ sections' = Append(sections, createFooterSection(doc, footerElements[1]))
                     /\ pc' = "assets"
                     /\ UNCHANGED <<doc, allContentElements, groupedContent, bodyContent, result>>
           ELSE /\ pc' = "assets"
                /\ UNCHANGED <<doc, sections, allContentElements, groupedContent,
                               bodyContent, result>>

\* lines 38-50
ReturnConversion ==
    /\ pc = "assets"
    /\ IF assetReadThrows(doc) THEN Threw
       ELSE /\ result' = << [joomla_version |-> "4.3+",
                             yootheme |-> [template |-> "YOOtheme Pro",
                                           version |-> "3.2+",
                                           builder_config |-> [sections |-> sections]],
                             assets |-> extractAssets(doc)] >>
            /\ pc' = "done"
            /\ UNCHANGED <<doc, sections, allContentElements, groupedContent, bodyContent>>

ConvInit(docs) ==
    /\ doc \in docs
    /\ pc = "parse"
    /\ sections = <<>>
    /\ allContentElements = <<>>
    /\ groupedContent = <<>>
    /\ bodyContent = <<>>
    /\ result = <<>>


(***************************************************************************)
(* determineButtonStyle applied to a class string                          *)
(***************************************************************************)
VARIABLES
    className,    \* the class attribute of the button element
    buttonStyle   \* what determineButtonStyle returned (none or one)

btnVars == <<className, buttonStyle>>

s_btn_primary == s_btn \o <<"-">> \o s_primary
s_btn_outline == s_btn \o <<"-">> \o s_outline
s_btn_secondary == s_btn \o <<"-">> \o s_secondary
s_PRIMARY == <<"P", "R", "I", "M", "A", "R", "Y">>
s_remainder == <<"r", "e", "m", "a", "i", "n", "d", "e", "r">>

\* the class tokens of the button class strings of the model
ButtonTokens ==
    { s_btn, s_btn_primary, s_btn_outline, s_btn_secondary, s_ghost, s_main,
      s_PRIMARY, s_remainder, s_outline, s_card }

\* the class strings of n tokens separated by one space
RECURSIVE ClassStrings(_)
ClassStrings(n) ==
    IF n = 0 THEN {<<>>}
    ELSE {t : t \in ButtonTokens} \cup
         {c \o s_space \o t : c \in ClassStrings(n - 1) \ {<<>>}, t \in ButtonTokens} \cup
         ClassStrings(n - 1)

ButtonClassNames == ClassStrings(MaxTokens)

BtnIdle == className = <<>> /\ buttonStyle = <<>>
BtnInit == className \in ButtonClassNames /\ buttonStyle = <<>>

DetermineButtonStyle ==
    /\ buttonStyle = <<>>
    /\ buttonStyle' = <<buttonStyleOfClass(className)>>
    /\ UNCHANGED className

(***************************************************************************)
(* The two UI components and their conversion handlers                     *)
(*   "single": src/unnamed/part_000 (handleConvert, handleApiKeySubmit)    *)
(*   "tabbed": src/src/components/JoomlaConverter.tsx, lines 1-366         *)
(*             (handleConversion, handleApiKeyTest)                        *)
(* FirecrawlService is not part of the sources: its promises settle with   *)
(* any of the outcomes below.                                              *)
(***************************************************************************)
VARIABLES
    component,   \* which of the two components is mounted
    ui,          \* the component's React state, and the handlers in flight
    attempts,    \* conversion attempts started so far
    attempt      \* the last conversion attempt: how its scrape settled and
                 \* whether convertWebsiteToJoomla was invoked for it

uiVars == <<component, ui, attempts, attempt>>

Urls == {"", " ", "example", "ftp://files.example", "https://example.com"}
ApiKeys == {"", "fc-key", "fc-other"}

\* new URL(url) does not throw
UrlParses(url) == url \in {"ftp://files.example", "https://example.com"}
\* url.startsWith('http://') || url.startsWith('https://')
StartsWithHttp(url) == url = "https://example.com"
validateUrl(url) == UrlParses(url) /\ StartsWithHttp(url)
\* s.trim() is not empty
TrimTruthy(s) == s \notin {"", " "}

\* how a scrapeWebsite promise settles: resolved with success and a page,
\* resolved with success and no data, resolved with success=false (with or
\* without a message), or rejected
ScrapeOutcomes ==
    { [kind |-> "success", data |-> TRUE, error |-> ""],
      [kind |-> "success", data |-> FALSE, error |-> ""],
      [kind |-> "failure", data |-> FALSE, error |-> "Rate limit exceeded"],
      [kind |-> "failure", data |-> FALSE, error |-> ""],
      [kind |-> "rejected", data |-> FALSE, error |-> "Network error"] }

NoToast == [title |-> "", description |-> "", variant |-> ""]
Toast(title, description, variant) ==
    [title |-> title, description |-> description, variant |-> variant]

NoAttempt == [outcome |-> "none", converterInvoked |-> FALSE]

UiIdle ==
    /\ component = "none"
    /\ ui = [pc |-> "unmounted"]
    /\ attempts = 0
    /\ attempt = NoAttempt

\* useState initial values; the stored API key may or may not exist
UiInit ==
    /\ component \in {"single", "tabbed"}
    /\ \E stored \in {"", "fc-key"} :
         ui = IF component = "single"
              THEN [url |-> "", apiKey |-> "", isLoading |-> FALSE,
                    conversionResult |-> <<>>, showApiKey |-> (stored = ""),
                    savedKey |-> stored, toast |-> NoToast,
                    pc |-> "idle", keyPc |-> "idle", testing |-> ""]
              ELSE [url |-> "", apiKey |-> stored, isLoading |-> FALSE,
                    isTestingKey |-> FALSE, keyValid |-> "null",
                    conversionResult |-> <<>>, activeTab |-> "setup",
                    savedKey |-> stored,
                    pc |-> "idle", keyPc |-> "idle", testing |-> ""]
    /\ attempts = 0
    /\ attempt = NoAttempt

\* JoomlaConverterUtil.convertWebsiteToJoomla(scrapeResult.data) throws when
\* there is no data to destructure
ConverterThrows(o) == ~o.data

(* ---------------- the single-page component (part_000) ---------------- *)
S_SetUrl(u) ==
    /\ component = "single" /\ ~ui.showApiKey
    /\ ui' = [ui EXCEPT !.url = u]
    /\ UNCHANGED <<component, attempts, attempt>>

S_SetApiKey(k) ==
    /\ component = "single" /\ ui.showApiKey
    /\ ui' = [ui EXCEPT !.apiKey = k]
    /\ UNCHANGED <<component, attempts, attempt>>

\* handleApiKeySubmit up to its await (lines 20-30)
S_ApiKeySubmit ==
    /\ component = "single" /\ ui.showApiKey /\ ui.keyPc = "idle"
    /\ IF ~TrimTruthy(ui.apiKey)
       THEN ui' = [ui EXCEPT !.toast = Toast("Error",
                                  "Please enter your Firecrawl API key", "destructive")]
       ELSE ui' = [ui EXCEPT !.keyPc = "testing", !.testing = ui.apiKey]
    /\ UNCHANGED <<component, attempts, attempt>>

\* handleApiKeySubmit after testApiKey resolved (lines 30-45)
S_ApiKeyTested(isValid) ==
    /\ component = "single" /\ ui.keyPc = "testing"
    /\ IF isValid
       THEN ui' = [ui EXCEPT !.keyPc = "idle", !.savedKey = ui.testing,
                             !.showApiKey = FALSE, !.testing = "",
                             !.toast = Toast("Success", "API key saved successfully", "")]
       ELSE ui' = [ui EXCEPT !.keyPc = "idle", !.testing = "",
                             !.toast = Toast("Error",
                                 "Invalid API key. Please check and try again.",
                                 "destructive")]
    /\ UNCHANGED <<component, attempts, attempt>>

\* the check of scrapeResult.success in handleConvert (line 74)
S_scrapeFailed(o) == o.kind = "failure"

\* handleConvert up to its await (lines 56-72); the submit button is disabled
\* while isLoading
S_Convert ==
    /\ component = "single" /\ ~ui.showApiKey /\ ~ui.isLoading /\ ui.pc = "idle"
    /\ attempts < MaxAttempts
    /\ IF ~validateUrl(ui.url)
       THEN /\ ui' = [ui EXCEPT !.toast = Toast("Invalid Input",
                                     "Please provide a valid URL (http/https)",
                                     "destructive")]
            /\ UNCHANGED <<attempts, attempt>>
       ELSE /\ ui' = [ui EXCEPT !.isLoading = TRUE, !.conversionResult = <<>>,
                                !.pc = "scraping"]
            /\ attempts' = attempts + 1
            /\ attempt' = [outcome |-> "pending", converterInvoked |-> FALSE]
    /\ UNCHANGED component

\* handleConvert after the scrape promise settled (lines 72-99)
S_ScrapeSettles(o) ==
    /\ component = "single" /\ ui.pc = "scraping"
    /\ IF o.kind = "rejected"
       THEN /\ ui' = [ui EXCEPT !.pc = "idle", !.isLoading = FALSE,
                                !.toast = Toast("Conversion Failed",
                                    "An error occurred during conversion", "destructive")]
            /\ attempt' = [attempt EXCEPT !.outcome = o.kind]
       ELSE IF S_scrapeFailed(o)
       THEN /\ ui' = [ui EXCEPT !.pc = "idle", !.isLoading = FALSE,
                                !.toast = Toast("Scraping Failed",
                                    IF o.error /= "" THEN o.error
                                    ELSE "Failed to scrape website", "destructive")]
            /\ attempt' = [attempt EXCEPT !.outcome = o.kind]
       ELSE IF ConverterThrows(o)
       THEN /\ ui' = [ui EXCEPT !.pc = "idle", !.isLoading = FALSE,
                                !.toast = Toast("Conversion Failed",
                                    "An error occurred during conversion", "destructive")]
            /\ attempt' = [outcome |-> o.kind, converterInvoked |-> TRUE]
       ELSE /\ ui' = [ui EXCEPT !.pc = "idle", !.isLoading = FALSE,
                                !.conversionResult = <<"joomlaConfig">>,
                                !.toast = Toast("Conversion Complete",
                                    "Website successfully converted to Joomla/YOOtheme format",
                                    "")]
            /\ attempt' = [outcome |-> o.kind, converterInvoked |-> TRUE]
    /\ UNCHANGED <<component, attempts>>

(* ------------- the tabbed component (JoomlaConverter.tsx) ------------- *)
Tabs == {"setup", "convert", "result"}

T_SetTab(tab) ==
    /\ component = "tabbed" /\ ui.activeTab /= tab
    /\ ui' = [ui EXCEPT !.activeTab = tab]
    /\ UNCHANGED <<component, attempts, attempt>>

T_SetUrl(u) ==
    /\ component = "tabbed" /\ ui.activeTab = "convert"
    /\ ui' = [ui EXCEPT !.url = u]
    /\ UNCHANGED <<component, attempts, attempt>>

\* onChange of the key input (lines 147-150)
T_SetApiKey(k) ==
    /\ component = "tabbed" /\ ui.activeTab = "setup"
    /\ ui' = [ui EXCEPT !.apiKey = k, !.keyValid = "null"]
    /\ UNCHANGED <<component, attempts, attempt>>

\* handleApiKeyTest up to its await (lines 30-34); the Test button is disabled
\* while isTestingKey
T_ApiKeyTest ==
    /\ component = "tabbed" /\ ui.activeTab = "setup"
    /\ TrimTruthy(ui.apiKey) /\ ~ui.isTestingKey /\ ui.keyPc = "idle"
    /\ ui' = [ui EXCEPT !.isTestingKey = TRUE, !.keyPc = "testing", !.testing = ui.apiKey]
    /\ UNCHANGED <<component, attempts, attempt>>

\* handleApiKeyTest after testApiKey resolved (lines 34-41): apiKey is the
\* value the closure captured
T_ApiKeyTested(isValid) ==
    /\ component = "tabbed" /\ ui.keyPc = "testing"
    /\ ui' = [ui EXCEPT !.keyValid = IF isValid THEN "true" ELSE "false",
                        !.savedKey = IF isValid THEN ui.testing ELSE ui.savedKey,
                        !.isTestingKey = FALSE, !.keyPc = "idle", !.testing = ""]
    /\ UNCHANGED <<component, attempts, attempt>>

\* the success flag never looked at
T_scrapeFailed_never(o) == FALSE

\* the check of scrapeResult.success in handleConversion (line 54)
T_scrapeFailed(o) == o.kind = "failure"

\* handleConversion started without looking at isLoading: a button that is
\* not disabled while a conversion runs
T_Convert_whileLoading ==
    /\ component = "tabbed" /\ ui.activeTab = "convert"
    /\ TrimTruthy(ui.url) /\ TrimTruthy(ui.apiKey)
    /\ attempts < MaxAttempts
    /\ ui' = [ui EXCEPT !.isLoading = TRUE, !.conversionResult = <<>>, !.pc = "scraping"]
    /\ attempts' = attempts + 1
    /\ attempt' = [outcome |-> "pending", converterInvoked |-> FALSE]
    /\ UNCHANGED component

\* handleConversion up to its await (lines 44-52); the button is disabled
\* unless url and apiKey are set and isLoading is false
T_Convert ==
    /\ component = "tabbed" /\ ui.activeTab = "convert" /\ ui.pc = "idle"
    /\ TrimTruthy(ui.url) /\ TrimTruthy(ui.apiKey) /\ ~ui.isLoading
    /\ attempts < MaxAttempts
    /\ ui' = [ui EXCEPT !.isLoading = TRUE, !.conversionResult = <<>>, !.pc = "scraping"]
    /\ attempts' = attempts + 1
    /\ attempt' = [outcome |-> "pending", converterInvoked |-> FALSE]
    /\ UNCHANGED component

\* handleConversion after the scrape promise settled (lines 52-78)
T_ScrapeSettles(o) ==
    /\ component = "tabbed" /\ ui.pc = "scraping"
    /\ IF o.kind = "rejected"
       THEN /\ ui' = [ui EXCEPT !.pc = "idle", !.isLoading = FALSE,
                                !.conversionResult =
                                    << [success |-> FALSE, error |-> o.error] >>]
            /\ attempt' = [attempt EXCEPT !.outcome = o.kind]
       ELSE IF T_scrapeFailed(o)
       THEN /\ ui' = [ui EXCEPT !.pc = "idle", !.isLoading = FALSE,
                                !.conversionResult =
                                    << [success |-> FALSE,
                                        error |-> IF o.error /= "" THEN o.error
                                                  ELSE "Failed to scrape website"] >>]
            /\ attempt' = [attempt EXCEPT !.outcome = o.kind]
       ELSE IF ConverterThrows(o)
       THEN /\ ui' = [ui EXCEPT !.pc = "idle", !.isLoading = FALSE,
                                !.conversionResult =
                                    << [success |-> FALSE,
                                        error |-> "Cannot destructure property 'html'"] >>]
            /\ attempt' = [outcome |-> o.kind, converterInvoked |-> TRUE]
       ELSE /\ ui' = [ui EXCEPT !.pc = "idle", !.isLoading = FALSE,
                                !.conversionResult =
                                    << [success |-> TRUE, error |-> ""] >>,
                                !.activeTab = "result"]
            /\ attempt' = [outcome |-> o.kind, converterInvoked |-> TRUE]
    /\ UNCHANGED <<component, attempts>>

\* the Convert Another button of the result tab (lines 332-341), shown with a
\* successful result
T_ConvertAnother ==
    /\ component = "tabbed" /\ ui.activeTab = "result"
    /\ ui.conversionResult /= <<>> /\ ui.conversionResult[1].success
    /\ ui' = [ui EXCEPT !.activeTab = "convert", !.conversionResult = <<>>, !.url = ""]
    /\ UNCHANGED <<component, attempts, attempt>>

(***************************************************************************)
(* Specifications                                                          *)
(***************************************************************************)
vars == <<doc, pc, sections, allContentElements, groupedContent, bodyContent, result,
          className, buttonStyle, component, ui, attempts, attempt>>

ConvIdle ==
    /\ doc = [nodes |-> <<>>, bodyStyle |-> <<>>]
    /\ pc = "idle"
    /\ sections = <<>>
    /\ allContentElements = <<>>
    /\ groupedContent = <<>>
    /\ bodyContent = <<>>
    /\ result = <<>>

\* the conversion of the generated structural pages
Init == ConvInit(DocsOf(StructKinds) \cup CuratedDocs) /\ BtnIdle /\ UiIdle
Next ==
    \/ ParseHeader /\ UNCHANGED <<btnVars, uiVars>>
    \/ DiscoverContent /\ UNCHANGED <<btnVars, uiVars>>
    \/ BodyFallback /\ UNCHANGED <<btnVars, uiVars>>
    \/ ParseFooter /\ UNCHANGED <<btnVars, uiVars>>
    \/ ReturnConversion /\ UNCHANGED <<btnVars, uiVars>>
Spec == Init /\ [][Next]_vars

\* the conversion of the generated pages that reference images and styles
InitAssets == ConvInit(DocsWith(AssetKinds, {<<>>, st_bg_bx})) /\ BtnIdle /\ UiIdle
SpecAssets == InitAssets /\ [][Next]_vars

\* the conversion of the generated pages of the read sites
InitTotal == ConvInit(DocsOf(ReadSiteKinds) \cup AttrCuratedDocs) /\ BtnIdle /\ UiIdle
SpecTotal == InitTotal /\ [][Next]_vars

\* determineButtonStyle on the class strings of the model
InitButton == BtnInit /\ ConvIdle /\ UiIdle
NextButton == DetermineButtonStyle /\ UNCHANGED <<convVars, uiVars>>
SpecButton == InitButton /\ [][NextButton]_vars

\* the two UI components
InitUI == UiInit /\ ConvIdle /\ BtnIdle
NextUI ==
    \/ (\E u \in Urls : S_SetUrl(u)) /\ UNCHANGED <<convVars, btnVars>>
    \/ (\E k \in ApiKeys : S_SetApiKey(k)) /\ UNCHANGED <<convVars, btnVars>>
    \/ S_ApiKeySubmit /\ UNCHANGED <<convVars, btnVars>>
    \/ (\E v \in BOOLEAN : S_ApiKeyTested(v)) /\ UNCHANGED <<convVars, btnVars>>
    \/ S_Convert /\ UNCHANGED <<convVars, btnVars>>
    \/ (\E o \in ScrapeOutcomes : S_ScrapeSettles(o)) /\ UNCHANGED <<convVars, btnVars>>
    \/ (\E tab \in Tabs : T_SetTab(tab)) /\ UNCHANGED <<convVars, btnVars>>
    \/ (\E u \in Urls : T_SetUrl(u)) /\ UNCHANGED <<convVars, btnVars>>
    \/ (\E k \in ApiKeys : T_SetApiKey(k)) /\ UNCHANGED <<convVars, btnVars>>
    \/ T_ApiKeyTest /\ UNCHANGED <<convVars, btnVars>>
    \/ (\E v \in BOOLEAN : T_ApiKeyTested(v)) /\ UNCHANGED <<convVars, btnVars>>
    \/ T_Convert /\ UNCHANGED <<convVars, btnVars>>
    \/ (\E o \in ScrapeOutcomes : T_ScrapeSettles(o)) /\ UNCHANGED <<convVars, btnVars>>
    \/ T_ConvertAnother /\ UNCHANGED <<convVars, btnVars>>
SpecUI == InitUI /\ [][NextUI]_vars

\* the conversion of the generated pages with layout classes
InitLayout == ConvInit(DocsOf(LayoutKinds) \cup LayoutCuratedDocs) /\ BtnIdle /\ UiIdle
SpecLayout == InitLayout /\ [][Next]_vars

\* the components with the continuation of a settled scrape promise always
\* run: the code after the await of handleConvert and of handleConversion
SpecUILive ==
    /\ SpecUI
    /\ WF_vars((\E o \in ScrapeOutcomes : S_ScrapeSettles(o)) /\ UNCHANGED <<convVars, btnVars>>)
    /\ WF_vars((\E o \in ScrapeOutcomes : T_ScrapeSettles(o)) /\ UNCHANGED <<convVars, btnVars>>)

(* ====================================================================== *)
(* Properties                                                             *)
(* ====================================================================== *)

\* the sections of the returned configuration
Emitted == result[1].yootheme.builder_config.sections

RowsHaveColumns(section) ==
    /\ Len(section.children) >= 1
    /\ \A r \in 1..Len(section.children) :
         LET row == section.children[r]
         IN  /\ row.type = "row"
             /\ Len(row.children) >= 1
             /\ \A c \in 1..Len(row.children) : row.children[c].type = "column"

\* C1: every section the converter emits (header, content, fallback, footer)
\* has at least one row, and every row has at least one column; this holds
\* of the sections while they are built and of the sections returned.
C1_SectionsHaveRowsAndColumns ==
    /\ \A i \in 1..Len(sections) : RowsHaveColumns(sections[i])
    /\ pc = "done" => /\ Len(result) = 1
                      /\ \A i \in 1..Len(Emitted) : RowsHaveColumns(Emitted[i])

\* a conversion that returned a content section of several rows and a
\* fallback section whose only column is empty
C1_Witness ==
    /\ pc = "done"
    /\ bodyContent /= <<>>
    /\ \E i \in 1..Len(Emitted) :
         Emitted[i].type = "section" /\ Len(Emitted[i].children) >= 2
    /\ \E i \in 1..Len(Emitted) :
         /\ Emitted[i].type = "section"
         /\ Len(Emitted[i].children) = 1
         /\ Emitted[i].children[1].children[1].children = <<>>

\* C2: a page whose body is empty and that has no header or footer element
\* converts to zero sections and an empty image list.
C2_EmptyPageHasNoSections ==
    (pc = "done" /\ doc.nodes = <<>> /\ doc.bodyStyle = <<>>)
        => /\ Len(result) = 1
           /\ Emitted = <<>>
           /\ result[1].assets.images = <<>>

\* C3: no two discovered content elements are equal, and none is an ancestor
\* or a descendant of another.
C3_DiscoveredIsAntichain ==
    \A j, k \in 1..Len(allContentElements) :
        j /= k => /\ allContentElements[j] /= allContentElements[k]
                  /\ ~Contains(doc, allContentElements[j], allContentElements[k])

\* two elements were accepted and a significant element matching a content
\* selector was turned down because it nests with an accepted one
C3_Witness ==
    /\ pc \notin {"parse", "discover"}
    /\ Len(allContentElements) >= 2
    /\ \E el \in Els(doc) :
         /\ el \notin Range(allContentElements)
         /\ MatchesAny(doc, el, contentSelectors)
         /\ hasSignificantContent(doc, el)
         /\ \E k \in 1..Len(allContentElements) :
              Contains(doc, allContentElements[k], el)

\* C4: when a header element exists the first section is the header section
\* built from the first matching element; when a footer element exists the
\* last section is the footer section built from the first matching element;
\* every section in between is a content section.
C4_HeaderFirstFooterLast ==
    pc = "done" =>
        LET headerElements == QuerySelectorAll(doc, 0, headerSelectors)
            footerElements == QuerySelectorAll(doc, 0, footerSelectors)
            lo == IF headerElements /= <<>> THEN 2 ELSE 1
            hi == IF footerElements /= <<>> THEN Len(Emitted) - 1 ELSE Len(Emitted)
        IN  /\ headerElements /= <<>> =>
                 /\ Len(Emitted) >= 1
                 /\ Emitted[1].type = "header"
                 /\ Emitted[1] = createHeaderSection(doc, headerElements[1])
            /\ footerElements /= <<>> =>
                 /\ Len(Emitted) >= lo
                 /\ Emitted[Len(Emitted)].type = "footer"
                 /\ Emitted[Len(Emitted)] = createFooterSection(doc, footerElements[1])
            /\ \A i \in lo..hi : Emitted[i].type = "section"

\* a page with a header element, a footer element and a content section that
\* has content
C4_Witness ==
    /\ pc = "done"
    /\ QuerySelectorAll(doc, 0, headerSelectors) /= <<>>
    /\ QuerySelectorAll(doc, 0, footerSelectors) /= <<>>
    /\ Len(Emitted) >= 3
    /\ \E i \in 2..(Len(Emitted) - 1) :
         Emitted[i].children[1].children[1].children /= <<>>

\* C5: the page header(nav(a)), main(section(h1 'Welcome', p of more than 20
\* characters)), footer converts to exactly three sections, header, content,
\* footer, and the content section has a single row with a single column
\* whose children are the heading 'Welcome' and then the text.
C5_EndToEndExample ==
    (pc = "done" /\ doc = EndToEndDoc) =>
        /\ Len(Emitted) = 3
        /\ Emitted[1].type = "header"
        /\ Emitted[2].type = "section"
        /\ Emitted[3].type = "footer"
        /\ Len(Emitted[2].children) = 1
        /\ Len(Emitted[2].children[1].children) = 1
        /\ LET children == Emitted[2].children[1].children[1].children
           IN  /\ Len(children) = 2
               /\ children[1].type = "heading"
               /\ children[1].settings.content = t_Welcome
               /\ children[2].type = "text"

\* every url the collection adds to the image set, once per occurrence
SourceOccurrences == imgSources(doc) \o backgroundSources(doc) \o styleBlockSources(doc)
SourceUrls == Range(SourceOccurrences)

\* the part of u after its last '/', all of u when it has none
FinalSegment(u) ==
    CHOOSE t \in {SubSeq(u, i + 1, Len(u)) : i \in 0..Len(u)} :
        /\ "/" \notin Range(t)
        /\ Len(t) = Len(u) \/ u[Len(u) - Len(t)] = "/"

RewrittenPath(u) ==
    s__media_converted_ \o (IF FinalSegment(u) = <<>> THEN s_image_jpg ELSE FinalSegment(u))

\* C6 as stated: every collected image url appears in the output as
\* '/media/converted/' followed by its final path segment, and a source url
\* that occurs several times contributes exactly one entry.
C6_OriginalRewrite ==
    pc = "done" =>
        /\ \A u \in SourceUrls :
             (s__media_converted_ \o FinalSegment(u)) \in Range(result[1].assets.images)
        /\ Len(result[1].assets.images) = Cardinality(SourceUrls)

\* C6: every collected image url appears in the output as '/media/converted/'
\* followed by its final path segment, or by 'image.jpg' when that segment is
\* empty; the output has one entry per distinct collected url and no other
\* entry.
C6_ImagesRewrittenOncePerUrl ==
    pc = "done" =>
        LET images == result[1].assets.images
        IN  /\ \A u \in SourceUrls : RewrittenPath(u) \in Range(images)
            /\ Len(images) = Cardinality(SourceUrls)
            /\ Range(images) \subseteq {RewrittenPath(u) : u \in SourceUrls}

\* a url collected more than once next to a url that ends in '/'
C6_Witness ==
    /\ pc = "done"
    /\ Len(SourceOccurrences) > Cardinality(SourceUrls)
    /\ \E u \in SourceUrls : FinalSegment(u) = <<>>
    /\ Len(result[1].assets.images) >= 2

\* C7: convertWebsiteToJoomla never throws: no step of a conversion reads
\* through a null value, and a finished conversion has returned a
\* configuration.
C7_ConversionIsTotal ==
    /\ pc /= "threw"
    /\ pc = "done" => Len(result) = 1

\* a finished conversion of a page with a grid class that holds no column
\* count among the converted elements and a background-image style the url
\* pattern does not match
C7_Witness ==
    /\ pc = "done"
    /\ \E el \in Range(bodyContent) \cup Range(allContentElements) :
         /\ Includes(ClassName(doc, el), s_grid)
         /\ ~colMatches(ClassName(doc, el)).found
    /\ \E el \in Els(doc) :
         /\ HasAttribute(doc, el, "style")
         /\ Includes(doc.nodes[el].attrs["style"], s_background_image)
         /\ ~backgroundImageMatch(doc.nodes[el].attrs["style"]).ok

\* C9: in both components, when the scrape resolves with success=false or its
\* promise rejects, the converter is not invoked, no successful result is
\* stored, and the failure is surfaced: an error toast in the single-page
\* component, a result with success=false and a message in the tabbed one.
C9_FailedScrapeNeverConverts ==
    attempt.outcome \in {"failure", "rejected"} =>
        /\ ~attempt.converterInvoked
        /\ component = "single" =>
             /\ ui.conversionResult = <<>>
             /\ ui.toast.variant = "destructive"
        /\ component = "tabbed" =>
             /\ Len(ui.conversionResult) = 1
             /\ ~ui.conversionResult[1].success
             /\ ui.conversionResult[1].error /= ""

\* the tabbed component after a second attempt whose scrape resolved with
\* success=false and no message
C9_Witness ==
    /\ component = "tabbed"
    /\ attempts >= 2
    /\ attempt.outcome = "failure"
    /\ ui.pc = "idle"
    /\ ui.conversionResult = << [success |-> FALSE, error |-> "Failed to scrape website"] >>

ButtonPriority ==
    << [words |-> {s_primary, s_main}, style |-> "primary"],
       [words |-> {s_secondary}, style |-> "secondary"],
       [words |-> {s_outline}, style |-> "outline"],
       [words |-> {s_ghost}, style |-> "text"] >>

Occurs(w, s) == \E i, j \in 1..Len(s) : SubSeq(s, i, j) = w

ExpectedButtonStyle(cls) ==
    LET lower == ToLowerCase(cls)
        hits == {k \in 1..Len(ButtonPriority) :
                    \E w \in ButtonPriority[k].words : Occurs(w, lower)}
    IN  IF hits = {} THEN "default"
        ELSE ButtonPriority[CHOOSE k \in hits : \A h \in hits : k <= h].style

\* C10: determineButtonStyle answers by the first match, in the order
\* primary/main, secondary, outline, ghost (as 'text'), else default, on the
\* lower-cased class string: 'btn btn-primary' gives primary, 'btn-outline'
\* gives outline, and a class string with both outline and primary gives
\* primary.
C10_ButtonStylePriority ==
    buttonStyle /= <<>> =>
        /\ buttonStyle[1] = ExpectedButtonStyle(className)
        /\ className = s_btn \o s_space \o s_btn_primary => buttonStyle[1] = "primary"
        /\ className = s_btn_outline => buttonStyle[1] = "outline"
        /\ (Occurs(s_outline, className) /\ Occurs(s_primary, className))
               => buttonStyle[1] = "primary"

\* the style was determined for a class string holding outline before primary
C10_Witness ==
    /\ className = s_btn_outline \o s_space \o s_btn_primary
    /\ buttonStyle = <<"primary">>

\* every row of every section built so far
AllRows == Concat([i \in 1..Len(sections) |-> sections[i].children])

\* the width the lookup of the specification assigns to n columns
LookupWidth(n) ==
    CASE n = 1 -> <<"1", "0", "0", "%">>
      [] n = 2 -> <<"5", "0", "%">>
      [] n = 3 -> <<"3", "3", ".", "3", "%">>
      [] n = 4 -> <<"2", "5", "%">>

\* 100 / n as JavaScript prints the quotient
QuotientWidth(n) ==
    CASE n = 1 -> <<"1", "0", "0", "%">>
      [] n = 2 -> <<"5", "0", "%">>
      [] n = 3 -> <<"3", "3", ".", "3", "3", "3", "3", "3", "3", "3", "3", "3", "3", "3",
                    "3", "3", "3", "6", "%">>
      [] n = 4 -> <<"2", "5", "%">>

ItemKinds == {"heading", "text", "image", "list", "button", "form", "table", "video"}

\* the items extracted from every group the discovery pass formed
GroupItems ==
    Concat([g \in 1..Len(groupedContent) |->
                extractComprehensiveContent(doc, groupedContent[g])])

\* C12: every item extractComprehensiveContent returns has one of the eight
\* kinds heading, text, image, list, button, form, table, video; a media
\* element (video, audio, iframe) yields the kind video, so no item reaches
\* the default branch of the mapper.
C12_ItemKindsClosed ==
    \A k \in 1..Len(GroupItems) : GroupItems[k].type \in ItemKinds

\* the elements that open the second and later groups
GroupStarts == {groupedContent[g][1] : g \in 2..Len(groupedContent)}

\* the break test of the specification: a section, article or main tag, or a
\* class that names hero or banner
IsSectionBreakElement(d, element) ==
    \/ TagName(d, element) \in {"section", "article", "main"}
    \/ Includes(ClassName(d, element), s_hero)
    \/ Includes(ClassName(d, element), s_banner)

\* C13: groupContentByVisualSections starts a new group at an element (after
\* the first) exactly when the element is a section, article or main tag or
\* its class hints at hero or banner; every other element, a div whose class
\* merely contains the word section, article or main included, is appended to
\* the running group.
C13_BreaksOnlyAtSectionElements ==
    \A k \in 2..Len(allContentElements) :
        (allContentElements[k] \in GroupStarts)
            <=> IsSectionBreakElement(doc, allContentElements[k])

\* C14: for a non-empty list of discovered elements the groups of
\* groupContentByVisualSections are all non-empty and their concatenation,
\* in order, is the list itself: every element is in exactly one group and
\* the groups are contiguous runs.
C14_GroupsPartitionInput ==
    (pc \notin {"parse", "discover"} /\ allContentElements /= <<>>) =>
        /\ \A g \in 1..Len(groupedContent) : groupedContent[g] /= <<>>
        /\ Concat(groupedContent) = allContentElements

\* three discovered elements grouped into a run of two and a run of one
C14_Witness ==
    /\ Len(allContentElements) = 3
    /\ Len(groupedContent) = 2
    /\ Len(groupedContent[1]) = 2

\* C15: whenever discovery yields at most one group, with or without a header
\* section, the body tree-walk fallback runs and every element the walk
\* collects becomes a content section of its own.
C15_FallbackOnSparseDiscovery ==
    (pc \in {"footer", "assets", "done"} /\ Len(groupedContent) <= 1) =>
        /\ bodyContent = extractBodyContent(doc)
        /\ Len(sections) >= Len(groupedContent) + Len(extractBodyContent(doc))

\* the layout analyzeLayoutStructure infers for every group of the discovery
GroupStructures ==
    [g \in 1..Len(groupedContent) |-> analyzeLayoutStructure(doc, groupedContent[g])]

\* C16: the column count analyzeLayoutStructure returns is an integer from 1
\* to 4; a count named by a framework class (col-N, grid-cols-N) is clamped
\* into that range.
C16_ColumnsAtMostFour ==
    \A g \in 1..Len(GroupStructures) : GroupStructures[g].columns \in 1..4

\* the column counts the framework classes of the elements of a group name
ExplicitCounts(d, elements) ==
    {colMatches(ClassName(d, elements[k])).n :
        k \in {j \in 1..Len(elements) : colMatches(ClassName(d, elements[j])).found}}

\* C17: a column count named by a framework class wins over the count of
\* significant direct children: a group whose classes name counts from 2 to 4
\* gets one of the named counts.
C17_ExplicitCountWins ==
    \A g \in 1..Len(groupedContent) :
        LET explicit == ExplicitCounts(doc, groupedContent[g])
        IN  (explicit /= {} /\ explicit \subseteq 2..4) =>
                GroupStructures[g].columns \in explicit

\* the direct children of an element that have significant content
SignificantChildren(d, element) ==
    FilterSeq(Children(d, element), LAMBDA child : hasSignificantContent(d, child))

\* the content section built from group g, right after the discovery pass
\* pushed the sections of the groups
GroupSection(g) == sections[Len(sections) - Len(groupedContent) + g]

\* C18: when the column count of a group is greater than 1 and the first
\* element of the group has exactly that many significant direct children,
\* the section of the group has one row with that many columns, and the i-th
\* column holds the items extracted from the i-th significant child alone.
C18_StructuralColumnMapping ==
    pc = "fallback" =>
        \A g \in 1..Len(groupedContent) :
            groupedContent[g] /= <<>> =>
                LET columnElements == SignificantChildren(doc, groupedContent[g][1])
                    columnCount == GroupStructures[g].columns
                    rows == GroupSection(g).children
                IN  (columnCount > 1 /\ Len(columnElements) = columnCount) =>
                        /\ Len(rows) = 1
                        /\ Len(rows[1].children) = columnCount
                        /\ \A i \in 1..columnCount :
                               rows[1].children[i].children =
                                   MapSeq(extractComprehensiveContent(doc, <<columnElements[i]>>),
                                          convertContentToYOOtheme)

\* the content items of group g
ItemsOfGroup(g) == extractComprehensiveContent(doc, groupedContent[g])

\* rows holds the mapped items in order, n to a row, the last row possibly
\* fewer, every item alone in its column
Chunked(rows, items, n) ==
    /\ Len(rows) = (Len(items) + n - 1) \div n
    /\ \A r \in 1..Len(rows) :
         /\ Len(rows[r].children) = Min(n, Len(items) - (r - 1) * n)
         /\ \A c \in 1..Len(rows[r].children) :
                rows[r].children[c].children =
                    <<convertContentToYOOtheme(items[(r - 1) * n + c])>>

ContentGroups ==
    groupedContent \o [k \in 1..Len(bodyContent) |-> <<bodyContent[k]>>]

\* the content section built from ContentGroups[g], before the footer section
\* is pushed
ContentSection(g) == sections[Len(sections) - Len(ContentGroups) + g]

\* C20 as stated: every row of a section whose layout is grid has gap large
\* and every row of any other section has gap default, whichever path built
\* the rows.
C20_GapFollowsGrid ==
    pc \in {"fallback", "footer"} =>
        \A g \in 1..Len(ContentGroups) :
            LET rows == ContentSection(g).children
                isGrid == analyzeLayoutStructure(doc, ContentGroups[g]).isGrid
            IN  \A r \in 1..Len(rows) :
                    rows[r].settings.gap = IF isGrid THEN "large" ELSE "default"

\* C20: every row of a section whose layout is grid and whose group has at
\* least one content item has gap large; every row of any other section, the
\* single row of a grid section without content items included, has gap
\* default.
C20_GapFollowsGridAndItems ==
    pc \in {"fallback", "footer"} =>
        \A g \in 1..Len(ContentGroups) :
            LET rows == ContentSection(g).children
                isGrid == analyzeLayoutStructure(doc, ContentGroups[g]).isGrid
                items == extractComprehensiveContent(doc, ContentGroups[g])
            IN  \A r \in 1..Len(rows) :
                    rows[r].settings.gap =
                        IF isGrid /\ items /= <<>> THEN "large" ELSE "default"

\* a grid section with content items next to the sections of a body walk
C20_Witness ==
    /\ pc = "footer"
    /\ bodyContent /= <<>>
    /\ \E g \in 1..Len(ContentGroups) :
         /\ analyzeLayoutStructure(doc, ContentGroups[g]).isGrid
         /\ extractComprehensiveContent(doc, ContentGroups[g]) /= <<>>
         /\ ContentSection(g).children[1].settings.gap = "large"

\* the place of an item's kind in the traversal order: headings, text,
\* images, lists, buttons, forms, tables, embedded media
KindRank(item) ==
    CASE item.type = "heading" -> 1
      [] item.type = "text" -> 2
      [] item.type = "image" -> 3
      [] item.type = "list" -> 4
      [] item.type = "button" -> 5
      [] item.type = "form" -> 6
      [] item.type = "table" -> 7
      [] OTHER -> 8

OrderedByKind(items) ==
    \A i, j \in 1..Len(items) : i < j => KindRank(items[i]) <= KindRank(items[j])

\* C21 as stated: the items extracted for a group of any number of elements
\* are ordered by kind over the whole group.
C21_GroupOrderedByKind ==
    \A g \in 1..Len(groupedContent) : OrderedByKind(ItemsOfGroup(g))

\* C21: the items of a group are the items of its first element, then those
\* of its second element, and so on; the items one element contributes are
\* ordered by kind: headings, text, images, lists, buttons, forms, tables,
\* embedded media.
C21_ElementOrderedByKind ==
    \A g \in 1..Len(groupedContent) :
        LET perElement ==
                [k \in 1..Len(groupedContent[g]) |->
                    extractComprehensiveContent(doc, <<groupedContent[g][k]>>)]
        IN  /\ ItemsOfGroup(g) = Concat(perElement)
            /\ \A k \in 1..Len(perElement) : OrderedByKind(perElement[k])

\* a group of two elements whose items, taken together, are not ordered by
\* kind
C21_Witness ==
    /\ \E g \in 1..Len(groupedContent) :
         /\ Len(groupedContent[g]) >= 2
         /\ ~OrderedByKind(ItemsOfGroup(g))

\* a group one of whose elements has a hero, banner or jumbotron class
IsHeroGroup(d, elements) ==
    \E k \in 1..Len(elements) :
        \/ Includes(ClassName(d, elements[k]), s_hero)
        \/ Includes(ClassName(d, elements[k]), s_banner)
        \/ Includes(ClassName(d, elements[k]), s_jumbotron)

\* C22: a hero or banner group gets the style hero, the first content section
\* gets the style primary, and two adjacent content sections after the first,
\* neither of them hero or banner, carry different styles; for the sections of
\* the discovered groups and for the sections of the body walk alike.
C22_StylesAlternate ==
    pc \in {"fallback", "footer"} =>
        /\ \A g \in 1..Len(ContentGroups) :
               IsHeroGroup(doc, ContentGroups[g]) =>
                   ContentSection(g).settings.style = "hero"
        /\ (Len(ContentGroups) >= 1 /\ ~IsHeroGroup(doc, ContentGroups[1])) =>
               ContentSection(1).settings.style = "primary"
        /\ \A g \in 2..(Len(ContentGroups) - 1) :
               (~IsHeroGroup(doc, ContentGroups[g])
                   /\ ~IsHeroGroup(doc, ContentGroups[g + 1])) =>
                   ContentSection(g).settings.style
                       /= ContentSection(g + 1).settings.style

RECURSIVE SumSeq(_)
SumSeq(ns) == IF ns = <<>> THEN 0 ELSE Head(ns) + SumSeq(Tail(ns))

\* the length of the text of all elements of a group, and the number of
\* image and video elements inside them
GroupTextLength(d, elements) ==
    SumSeq([k \in 1..Len(elements) |-> Len(TrimmedText(d, elements[k]))])
GroupMediaCount(d, elements) ==
    SumSeq([k \in 1..Len(elements) |->
               Len(QuerySelectorAll(d, elements[k], <<SelTag("img"), SelTag("video")>>))])

\* C23: the padding of a content section is large exactly when the text of
\* its group, summed over the elements of the group, is longer than 500
\* characters or the group as a whole holds more than two image or video
\* elements, and default otherwise.
C23_PaddingByGroupTotals ==
    pc \in {"fallback", "footer"} =>
        \A g \in 1..Len(ContentGroups) :
            ContentSection(g).settings.padding =
                IF \/ GroupTextLength(doc, ContentGroups[g]) > LargeTextLength
                   \/ GroupMediaCount(doc, ContentGroups[g]) > LargeMediaCount
                THEN "large" ELSE "default"

\* the elements in the columns of a section, row by row, column by column
EmittedElements(section) ==
    Concat([r \in 1..Len(section.children) |->
               Concat([c \in 1..Len(section.children[r].children) |->
                          section.children[r].children[c].children])])

\* the value of attribute n of element e, dflt when the attribute is absent or
\* empty
AttributeOrDefault(d, e, n, dflt) ==
    IF n \in DOMAIN d.nodes[e].attrs /\ d.nodes[e].attrs[n] /= <<>>
    THEN d.nodes[e].attrs[n] ELSE dflt

\* the output element of one content item carries strings in the fields read
\* from attributes: the attribute, or the default of the field
DefaultsApplied(d, item, out) ==
    CASE item.type = "image" ->
            /\ out.settings.image = AttributeOrDefault(d, item.element, "src", <<>>)
            /\ out.settings.alt = AttributeOrDefault(d, item.element, "alt", <<>>)
            /\ out.settings.width = AttributeOrDefault(d, item.element, "width", s_auto)
            /\ out.settings.height = AttributeOrDefault(d, item.element, "height", s_auto)
      [] item.type \in {"video", "iframe"} ->
            /\ out.settings.source = AttributeOrDefault(d, item.element, "src", <<>>)
            /\ out.settings.width = AttributeOrDefault(d, item.element, "width", s_100pct)
            /\ out.settings.height = AttributeOrDefault(d, item.element, "height", s_auto)
      [] item.type = "button" ->
            out.settings.link =
                AttributeOrDefault(d, item.element, "href",
                    AttributeOrDefault(d, item.element, "data-href", s_hash))
      [] item.type = "form" ->
            /\ item.action = AttributeOrDefault(d, item.element, "action", <<>>)
            /\ \A k \in 1..Len(item.inputs) :
                   LET input == QuerySelectorAll(d, item.element, inputSelectors)[k]
                   IN  /\ item.inputs[k].name = AttributeOrDefault(d, input, "name", <<>>)
                       /\ item.inputs[k].placeholder
                              = AttributeOrDefault(d, input, "placeholder", <<>>)
            /\ out.settings.content = renderForm(item)
      [] OTHER -> TRUE

\* C24: every output field read from an attribute holds a string: the
\* attribute when it is set, the empty string for an absent src, alt, name,
\* placeholder or action, '#' for an absent link, and for an absent width or
\* height the default of the element kind (auto for an image, 100% and auto
\* for a video).
C24_AbsentAttributesDefault ==
    pc = "fallback" =>
        \A g \in 1..Len(groupedContent) :
            LET items == ItemsOfGroup(g)
                outs == EmittedElements(GroupSection(g))
            IN  /\ Len(outs) = Len(items)
                /\ \A k \in 1..Len(items) : DefaultsApplied(doc, items[k], outs[k])

\* the section of a group with an image, a video, a button and a form whose
\* attributes are all absent
C24_Witness ==
    /\ pc = "fallback"
    /\ \E g \in 1..Len(groupedContent) :
         LET outs == EmittedElements(GroupSection(g))
         IN  /\ \E k \in 1..Len(outs) :
                    outs[k].type = "image" /\ outs[k].settings.width = s_auto
                        /\ outs[k].settings.image = <<>>
             /\ \E k \in 1..Len(outs) :
                    outs[k].type = "video" /\ outs[k].settings.width = s_100pct
             /\ \E k \in 1..Len(outs) :
                    outs[k].type = "button" /\ outs[k].settings.link = s_hash
             /\ \E k \in 1..Len(outs) : outs[k].type = "html"

\* C25: the image list extractAssets returns holds no entry twice, also for
\* pages whose distinct image urls share their last path segment or end in
\* a slash.
C25_ImageListHasNoDuplicates ==
    pc = "done" =>
        LET images == result[1].assets.images
        IN  \A i, j \in 1..Len(images) : i /= j => images[i] /= images[j]

\* C26: discoverContentElements returns the elements it accepts in document
\* order, whatever the order of the selector list, so the content sections
\* follow the order of their source elements in the page.
C26_DiscoveredInDocumentOrder ==
    \A i, j \in 1..Len(allContentElements) :
        i < j => allContentElements[i] < allContentElements[j]

\* element e is the element chosen for the header section or for the footer
\* section, or lies inside it
InChosenChrome(d, e) ==
    LET headerElements == QuerySelectorAll(d, 0, headerSelectors)
        footerElements == QuerySelectorAll(d, 0, footerSelectors)
    IN  \/ headerElements /= <<>> /\ Contains(d, headerElements[1], e)
        \/ footerElements /= <<>> /\ Contains(d, footerElements[1], e)

\* C27: no element inside, or equal to, the element chosen for the header or
\* the footer section contributes to a content section, be it a section of
\* the discovery or of the body walk: neither as an element of the group nor
\* as the source element of one of its content items.
C27_ChromeNotInContent ==
    pc \in {"footer", "assets", "done"} =>
        \A g \in 1..Len(ContentGroups) :
            /\ \A k \in 1..Len(ContentGroups[g]) :
                   ~InChosenChrome(doc, ContentGroups[g][k])
            /\ LET items == extractComprehensiveContent(doc, ContentGroups[g])
               IN  \A k \in 1..Len(items) : ~InChosenChrome(doc, items[k].element)

\* C28: every content item extracted for a group, over all elements of the
\* group, appears in exactly one column of the section built for the group:
\* the elements in the columns of the section, read row by row, are the
\* mapped items, each once and in extraction order.
C28_EveryItemInOneColumn ==
    pc \in {"fallback", "footer"} =>
        \A g \in 1..Len(ContentGroups) :
            EmittedElements(ContentSection(g))
                = MapSeq(extractComprehensiveContent(doc, ContentGroups[g]),
                         convertContentToYOOtheme)

\* the section of a group of two elements with items from both, laid out in
\* more than one row
C28_Witness ==
    /\ pc = "fallback"
    /\ \E g \in 1..Len(groupedContent) :
         /\ Len(groupedContent[g]) >= 2
         /\ \A k \in 1..Len(groupedContent[g]) :
                extractComprehensiveContent(doc, <<groupedContent[g][k]>>) /= <<>>
         /\ Len(GroupSection(g).children) >= 2

\* C29: in both components a conversion attempt that set isLoading sets it
\* back to false once the scrape promise has settled, on every path (scrape
\* failure, rejection, thrown exception, success), and while isLoading is
\* true no further attempt starts.
C29_LoadingEndsAndExcludes ==
    /\ [](ui.isLoading => <>(~ui.isLoading))
    /\ [][ui.isLoading => attempts' = attempts]_vars

\* the single-page component after its second attempt, whose converter threw:
\* isLoading is false again
C29_Witness ==
    /\ component = "single"
    /\ attempts = 2
    /\ attempt.outcome = "success" /\ attempt.converterInvoked
    /\ ui.conversionResult = <<>>
    /\ ~ui.isLoading

\* C30: in the tabbed component, whenever keyValid is true the key in the
\* input state is the key that was tested valid and saved, also when the key
\* is edited while a test is pending.
C30_ValidKeyIsTestedKey ==
    (component = "tabbed" /\ ui.keyValid = "true") => ui.apiKey = ui.savedKey

====
